---- MODULE Spec2Model ----
(***************************************************************************)
(* One Pace Manager (assets/js/app.js): the metadata reconciliation run    *)
(* OnePaceManager.applyOnePaceEdits, the handlers that share its state     *)
(* (stopOperation, switchTab, selectServer, selectShow), the Plex adapter  *)
(* calls it awaits, and the rename simulation renameMediaFiles.            *)
(*                                                                         *)
(* JavaScript strings are sequences of one-character strings, so that      *)
(* trim, toLowerCase, padStart, includes, parseInt and template strings    *)
(* are computed as the code computes them.  A catalog attribute that is    *)
(* absent (getAttribute gives null) is the empty sequence: every           *)
(* comparison the code makes with it is against a non-empty string.        *)
(***************************************************************************)
EXTENDS Integers, Sequences, FiniteSets, TLC

(***************************************************************************)
(* Bounds of the model.                                                    *)
(***************************************************************************)
\* invocations of applyOnePaceEdits in one behaviour, the dry-run box unchecked
MaxRuns == 1
\* invocations of applyOnePaceEdits in one behaviour, the dry-run box checked
MaxDryRuns == 2
\* invocations of renameMediaFiles in one behaviour
MaxRenames == 2
\* files in one selection of the media folder
MaxFiles == 2
\* adapter calls (updateMetadata) that the transport lets fail in one behaviour
MaxFailures == 1
\* switchTab / selectServer events while a run is in progress
\* the longest text given to Utils.parseCSV
MaxText == 5

MaxSwitches == 1

(***************************************************************************)
(* JavaScript strings and values                                           *)
(***************************************************************************)
Digits == <<"0", "1", "2", "3", "4", "5", "6", "7", "8", "9">>

IsDigit(c) == \E i \in 1..10 : Digits[i] = c

DigitVal(c) == (CHOOSE i \in 1..10 : Digits[i] = c) - 1

UpperCase ==
    <<"A", "B", "C", "D", "E", "F", "G", "H", "I", "J", "K", "L", "M",
      "N", "O", "P", "Q", "R", "S", "T", "U", "V", "W", "X", "Y", "Z">>

LowerCase ==
    <<"a", "b", "c", "d", "e", "f", "g", "h", "i", "j", "k", "l", "m",
      "n", "o", "p", "q", "r", "s", "t", "u", "v", "w", "x", "y", "z">>

\* String.prototype.toLowerCase, one character
LowerChar(c) ==
    IF \E i \in 1..26 : UpperCase[i] = c
    THEN LowerCase[CHOOSE i \in 1..26 : UpperCase[i] = c]
    ELSE c

ToLowerCase(s) == [i \in 1..Len(s) |-> LowerChar(s[i])]

RECURSIVE TrimStart(_)
TrimStart(s) == IF s # <<>> /\ Head(s) = " " THEN TrimStart(Tail(s)) ELSE s

RECURSIVE TrimEnd(_)
TrimEnd(s) ==
    IF s # <<>> /\ s[Len(s)] = " " THEN TrimEnd(SubSeq(s, 1, Len(s) - 1)) ELSE s

\* String.prototype.trim
Trim(s) == TrimEnd(TrimStart(s))

\* String.prototype.includes
Includes(s, sub) ==
    \E i \in 1..(Len(s) - Len(sub) + 1) : SubSeq(s, i, i + Len(sub) - 1) = sub

\* Number.prototype.toString for a natural number
RECURSIVE ToStr(_)
ToStr(n) == IF n < 10 THEN <<Digits[n + 1]>> ELSE ToStr(n \div 10) \o <<Digits[(n % 10) + 1]>>

\* String.prototype.padStart(2, "0")
PadStart2(s) == IF Len(s) >= 2 THEN s ELSE IF Len(s) = 1 THEN <<"0">> \o s ELSE <<"0", "0">>

\* A JavaScript value that a season number can take: a number, NaN, null, or
\* the string "0" (renameMediaFiles stores "0" for the Specials row).
Num(n) == [k |-> "num", n |-> n]
NaNV == [k |-> "nan", n |-> 0]
NullV == [k |-> "null", n |-> 0]
UndefV == [k |-> "undef", n |-> 0]
StrZero == [k |-> "str", n |-> 0]

\* ToBoolean
Truthy(v) == v.k = "str" \/ (v.k = "num" /\ v.n # 0)

\* the template-string rendering `${v}`
ValToStr(v) ==
    CASE v.k = "num" -> ToStr(v.n)
      [] v.k = "str" -> <<"0">>
      [] v.k = "nan" -> <<"N", "a", "N">>
      [] v.k = "null" -> <<"n", "u", "l", "l">>
      [] OTHER -> <<"u", "n", "d", "e", "f", "i", "n", "e", "d">>

RECURSIVE DigitsValue(_, _)
DigitsValue(s, acc) ==
    IF s # <<>> /\ IsDigit(Head(s))
    THEN DigitsValue(Tail(s), acc * 10 + DigitVal(Head(s)))
    ELSE acc

\* parseInt(s): leading white space skipped, then the leading decimal digits;
\* NaN when there is none (no cell of the model carries a sign or a 0x prefix)
ParseInt(s) ==
    LET t == TrimStart(s)
    IN IF t # <<>> /\ IsDigit(Head(t)) THEN Num(DigitsValue(t, 0)) ELSE NaNV

\* ToNumber(s), used by the loose comparison `row.part == season.number`:
\* the empty (or blank) string is 0, a string of digits its value, else NaN
ToNumber(s) ==
    LET t == Trim(s)
    IN IF t = <<>> THEN Num(0)
       ELSE IF \A i \in 1..Len(t) : IsDigit(t[i]) THEN Num(DigitsValue(t, 0))
       ELSE NaNV

\* string == number
LooseEq(s, n) == ToNumber(s) = Num(n)

(***************************************************************************)
(* String constants of the source                                          *)
(***************************************************************************)
Specials == <<"S", "p", "e", "c", "i", "a", "l", "s">>

FanLetter ==
    <<"O", "n", "e", " ", "P", "i", "e", "c", "e", " ", "F", "a", "n", " ",
      "L", "e", "t", "t", "e", "r">>

ToBeReleased ==
    <<"T", "o", " ", "B", "e", " ", "R", "e", "l", "e", "a", "s", "e", "d">>

ChaptersPrefix == <<"\n", "C", "h", "a", "p", "t", "e", "r", "s", ":", " ">>

EpisodesPrefix == <<"\n", "E", "p", "i", "s", "o", "d", "e", "s", ":", " ">>

Dash == <<"-">>

(***************************************************************************)
(* JavaScript objects used as maps: a function on the set of its keys.     *)
(***************************************************************************)
EmptyObj == [x \in {} |-> NullV]

Put(m, key, v) == [x \in (DOMAIN m) \cup {key} |-> IF x = key THEN v ELSE m[x]]

Has(m, key) == key \in DOMAIN m

\* m[key] of a map to season values: undefined when the key is absent
Get(m, key) == IF Has(m, key) THEN m[key] ELSE UndefV

\* v || null
OrNull(v) == IF Truthy(v) THEN v ELSE NullV

(***************************************************************************)
(* Lookup tables of applyOnePaceEdits                                      *)
(* A season-map row is [part, title_en, description_en], an episode row    *)
(* [arc_title, arc_part, title_en, description_en], a release row          *)
(* [label, date, chapters, episodes] (the columns "One Pace Episode",      *)
(* "Release Date", "Chapters", "Episodes"); every cell is a string, as     *)
(* Utils.parseCSV produces it.                                             *)
(***************************************************************************)
\* titleToSeason of applyOnePaceEdits
RECURSIVE TitleToSeasonFrom(_, _)
TitleToSeasonFrom(rows, m) ==
    IF rows = <<>> THEN m
    ELSE LET row == Head(rows)
             m2 == IF row.part # <<>> /\ row.title_en # <<>>
                   THEN Put(m, Trim(ToLowerCase(row.title_en)),
                            IF row.title_en = Specials THEN Num(0) ELSE ParseInt(row.part))
                   ELSE m
         IN TitleToSeasonFrom(Tail(rows), m2)

TitleToSeason(rows) == TitleToSeasonFrom(rows, EmptyObj)

\* seasonNum of an episode row's arc in applyOnePaceEdits (arc already trimmed)
ApplySeasonNum(arc, titleToSeason) ==
    IF arc = Specials \/ arc = FanLetter
    THEN Num(0)
    ELSE OrNull(Get(titleToSeason, ToLowerCase(arc)))

\* the key `${seasonNum}-${epPart}` of an episode row
RowKey(seasonNum, epPart) == ValToStr(seasonNum) \o Dash \o epPart

\* a variant of the catalog key with the episode number padded to two digits
CatalogKeyPadded(seasonNumber, episodeNumber) ==
    ToStr(seasonNumber) \o Dash \o PadStart2(ToStr(episodeNumber))

\* the key `${season.number}-${episode.number}` of a catalog episode
CatalogKey(seasonNumber, episodeNumber) ==
    ToStr(seasonNumber) \o Dash \o ToStr(episodeNumber)

\* episodeLookup of applyOnePaceEdits: key -> [title, description]
RECURSIVE EpisodeLookupFrom(_, _, _)
EpisodeLookupFrom(rows, titleToSeason, m) ==
    IF rows = <<>> THEN m
    ELSE LET row == Head(rows)
             arc == Trim(row.arc_title)
             seasonNum == ApplySeasonNum(arc, titleToSeason)
             m2 == IF arc = <<>> \/ row.arc_part = <<>> \/ row.title_en = <<>>
                   THEN m
                   ELSE IF seasonNum # NullV
                        THEN Put(m, RowKey(seasonNum, row.arc_part),
                                 [title |-> row.title_en, description |-> row.description_en])
                        ELSE m
         IN EpisodeLookupFrom(Tail(rows), titleToSeason, m2)

EpisodeLookup(episodeRows, seasonRows) ==
    EpisodeLookupFrom(episodeRows, TitleToSeason(seasonRows), EmptyObj)

\* seasonInfo: Array.prototype.find, the index of the first season-map row
\* with row.part == season.number, 0 when there is none
SeasonInfoIndex(seasonRows, seasonNumber) ==
    LET hits == {i \in 1..Len(seasonRows) : LooseEq(seasonRows[i].part, seasonNumber)}
    IN IF hits = {} THEN 0 ELSE CHOOSE i \in hits : \A j \in hits : i <= j

\* the test of the releaseInfo find: the label includes the episode number
\* padded to two digits
ReleaseMatches(row, episodeNumber) == Includes(row.label, PadStart2(ToStr(episodeNumber)))

\* releaseInfo: the index of the first release row that matches, 0 when
\* there is none
ReleaseInfoIndex(releaseRows, episodeNumber) ==
    LET hits == {i \in 1..Len(releaseRows) : ReleaseMatches(releaseRows[i], episodeNumber)}
    IN IF hits = {} THEN 0 ELSE CHOOSE i \in hits : \A j \in hits : i <= j

(***************************************************************************)
(* Field diffs of applyOnePaceEdits                                        *)
(* updateOptions is [title, seasonTitle, description, date, dryRun]; an    *)
(* `updates` object is [keys, title, summary, originallyAvailableAt],      *)
(* keys being the set of the properties it has.                            *)
(***************************************************************************)
NoUpdates ==
    [keys |-> {}, title |-> <<>>, summary |-> <<>>, originallyAvailableAt |-> <<>>]

\* season title: the guard of the update and the object passed to the adapter
SeasonTitleNeeded(updateOptions, seasonRows, season) ==
    LET i == SeasonInfoIndex(seasonRows, season.number)
    IN /\ updateOptions.seasonTitle
       /\ i # 0
       /\ seasonRows[i].title_en # <<>>
       /\ seasonRows[i].title_en # season.title

SeasonTitleUpdates(seasonRows, season) ==
    LET i == SeasonInfoIndex(seasonRows, season.number)
    IN [NoUpdates EXCEPT !.keys = {"title"}, !.title = seasonRows[i].title_en]

\* season description: the guard of the update and the object passed
SeasonDescriptionNeeded(updateOptions, seasonRows, season) ==
    LET i == SeasonInfoIndex(seasonRows, season.number)
    IN /\ updateOptions.description
       /\ i # 0
       /\ seasonRows[i].description_en # <<>>

SeasonDescriptionUpdates(seasonRows, season) ==
    LET i == SeasonInfoIndex(seasonRows, season.number)
    IN [NoUpdates EXCEPT !.keys = {"summary"}, !.summary = seasonRows[i].description_en]

\* a variant of the title test that does not look at the option
EpisodeTitleDiffersAnyOption(updateOptions, episode, episodeData) ==
    episode.title # episodeData.title

\* episode title
EpisodeTitleDiffers(updateOptions, episode, episodeData) ==
    updateOptions.title /\ episode.title # episodeData.title

\* episodeDescription: the lookup description with the Chapters / Episodes
\* lines of the matched release row
EpisodeDescription(episodeData, releaseRows, episodeNumber) ==
    LET i == ReleaseInfoIndex(releaseRows, episodeNumber)
        chapters == IF i # 0 /\ releaseRows[i].chapters # <<>>
                    THEN ChaptersPrefix \o releaseRows[i].chapters ELSE <<>>
        episodes == IF i # 0 /\ releaseRows[i].episodes # <<>>
                    THEN EpisodesPrefix \o releaseRows[i].episodes ELSE <<>>
    IN episodeData.description \o chapters \o episodes

\* a variant of the description test that does not compare with the summary
EpisodeSummaryAlways(updateOptions, episode, episodeData, releaseRows) ==
    updateOptions.description /\ episodeData.description # <<>>

\* episode description
EpisodeSummaryDiffers(updateOptions, episode, episodeData, releaseRows) ==
    /\ updateOptions.description
    /\ episodeData.description # <<>>
    /\ episode.summary # EpisodeDescription(episodeData, releaseRows, episode.number)

\* a variant of the date test that does not look at the option
EpisodeDateDiffersAnyOption(updateOptions, episode, releaseRows) ==
    LET i == ReleaseInfoIndex(releaseRows, episode.number)
    IN /\ i # 0
       /\ releaseRows[i].date # <<>>
       /\ ~Includes(releaseRows[i].date, ToBeReleased)
       /\ episode.originallyAvailableAt # releaseRows[i].date

\* a variant of the date test that excludes only a date equal to the sentinel
EpisodeDateDiffersExactSentinel(updateOptions, episode, releaseRows) ==
    LET i == ReleaseInfoIndex(releaseRows, episode.number)
    IN /\ updateOptions.date
       /\ i # 0
       /\ releaseRows[i].date # <<>>
       /\ releaseRows[i].date # ToBeReleased
       /\ episode.originallyAvailableAt # releaseRows[i].date

\* episode air date
EpisodeDateDiffers(updateOptions, episode, releaseRows) ==
    LET i == ReleaseInfoIndex(releaseRows, episode.number)
    IN /\ updateOptions.date
       /\ i # 0
       /\ releaseRows[i].date # <<>>
       /\ ~Includes(releaseRows[i].date, ToBeReleased)
       /\ episode.originallyAvailableAt # releaseRows[i].date

\* the `updates` object of one episode; willUpdate is updates.keys # {}
EpisodeUpdates(updateOptions, episode, episodeData, releaseRows) ==
    LET t == EpisodeTitleDiffers(updateOptions, episode, episodeData)
        d == EpisodeSummaryDiffers(updateOptions, episode, episodeData, releaseRows)
        a == EpisodeDateDiffers(updateOptions, episode, releaseRows)
    IN [keys |-> (IF t THEN {"title"} ELSE {}) \cup (IF d THEN {"summary"} ELSE {})
                 \cup (IF a THEN {"originallyAvailableAt"} ELSE {}),
        title |-> IF t THEN episodeData.title ELSE <<>>,
        summary |-> IF d THEN EpisodeDescription(episodeData, releaseRows, episode.number)
                    ELSE <<>>,
        originallyAvailableAt |->
            IF a THEN releaseRows[ReleaseInfoIndex(releaseRows, episode.number)].date
            ELSE <<>>]

(***************************************************************************)
(* The Plex server: a show tree per server, a sequence of seasons          *)
(* [id, number, title, summary, episodes], each episode                    *)
(* [id, number, title, summary, originallyAvailableAt].                    *)
(***************************************************************************)
\* Utils.fetchWithCORS on a reply of the transport: "ok" (2xx), "unauthorized"
\* (401, returned to the caller with ok = false), "error" (any other status,
\* or a network failure that the proxy does not recover): "ok", "notok", "throw"
FetchWithCORS(reply) ==
    CASE reply = "ok" -> "ok"
      [] reply = "unauthorized" -> "notok"
      [] OTHER -> "throw"

\* PlexAPI.getShowMetadata: seasonsReply is the reply to the seasons request,
\* episodeReplies[i] the reply to the episodes request of season i.
\* [failed, seasons]
GetShowMetadata(tree, seasonsReply, episodeReplies) ==
    IF FetchWithCORS(seasonsReply) # "ok"
    THEN [failed |-> TRUE, seasons |-> <<>>]
    ELSE IF \E i \in 1..Len(tree) : FetchWithCORS(episodeReplies[i]) = "throw"
    THEN [failed |-> TRUE, seasons |-> <<>>]
    ELSE [failed |-> FALSE,
          seasons |-> [i \in 1..Len(tree) |->
                         IF FetchWithCORS(episodeReplies[i]) = "ok"
                         THEN tree[i]
                         ELSE [tree[i] EXCEPT !.episodes = <<>>]]]

\* the fields PlexAPI.updateMetadata sends: a property is appended to the
\* query only when it is truthy
SentFields(updates) ==
    {f \in updates.keys :
        CASE f = "title" -> updates.title # <<>>
          [] f = "summary" -> updates.summary # <<>>
          [] OTHER -> updates.originallyAvailableAt # <<>>}

ApplyFields(item, updates) ==
    [item EXCEPT
       !.title = IF "title" \in SentFields(updates) THEN updates.title ELSE @,
       !.summary = IF "summary" \in SentFields(updates) THEN updates.summary ELSE @]

ApplyEpisodeFields(episode, updates) ==
    [ApplyFields(episode, updates) EXCEPT
       !.originallyAvailableAt =
           IF "originallyAvailableAt" \in SentFields(updates)
           THEN updates.originallyAvailableAt ELSE @]

\* the server's tree after a PUT /library/metadata/{itemId} that it accepted
ServerUpdate(tree, itemId, updates) ==
    [i \in 1..Len(tree) |->
       IF tree[i].id = itemId
       THEN ApplyFields(tree[i], updates)
       ELSE [tree[i] EXCEPT !.episodes =
               [j \in 1..Len(tree[i].episodes) |->
                  IF tree[i].episodes[j].id = itemId
                  THEN ApplyEpisodeFields(tree[i].episodes[j], updates)
                  ELSE tree[i].episodes[j]]]]


(***************************************************************************)
(* Data of the model: the spreadsheets and the show the servers hold       *)
(***************************************************************************)
SRow(part, title, description) ==
    [part |-> part, title_en |-> title, description_en |-> description]

ERow(arc, part, title, description) ==
    [arc_title |-> arc, arc_part |-> part, title_en |-> title, description_en |-> description]

RRow(label, date, chapters, episodes) ==
    [label |-> label, date |-> date, chapters |-> chapters, episodes |-> episodes]

CatalogEpisode(id, number, title, summary, date) ==
    [id |-> id, number |-> number, title |-> title, summary |-> summary,
     originallyAvailableAt |-> date]

CatalogSeason(id, number, title, summary, episodes) ==
    [id |-> id, number |-> number, title |-> title, summary |-> summary,
     episodes |-> episodes]

Eb == <<"E", "b">>
EbUpper == <<"E", "B">>
Sk == <<"S", "k">>
Xx == <<"X", "x">>
SpecialsLower == <<"s", "p", "e", "c", "i", "a", "l", "s">>
RD == <<"R", "D">>
Old == <<"O", "l", "d">>
T5 == <<"T", "5">>
D1 == <<"d", "1">>
SD == <<"s", "d">>
Ep03 == <<"E", "p", " ", "0", "3">>
Ep105 == <<"E", "p", " ", "1", "0", "5">>
Y2020 == <<"2", "0", "2", "0">>
Ep01 == <<"E", "p", " ", "0", "1">>
Ep02 == <<"E", "p", " ", "0", "2">>
ToBeReleasedSoon == ToBeReleased \o <<" ", "2", "0", "2", "5">>
BracketTitle == <<"[", "1", "]", " ", "S", "k", " ", "7">>

\* the end-to-end scenario: one arc, one episode whose title differs; the
\* season already carries the title and the description of the sheet, the
\* episode its description
WorldE2E ==
    [name |-> "e2e",
     seasonMapping |-> <<SRow(<<"1">>, Eb, SD)>>,
     episodeData |-> <<ERow(Eb, <<"3">>, RD, D1)>>,
     releaseData |-> <<>>,
     catalog |-> <<CatalogSeason("s1", 1, Eb, SD,
                     <<CatalogEpisode("e13", 3, Old, D1, <<>>)>>)>>]

\* two arcs; episode 3 already titled, episode 5 not; a zero-padded part cell,
\* an unknown arc, a title that has the shape of a source file name, a
\* release label that contains "05" only inside "105", and a release row
\* that is still to be released
WorldMain ==
    [name |-> "main",
     seasonMapping |-> <<SRow(<<"1">>, Eb, SD), SRow(<<"2">>, Sk, <<>>)>>,
     episodeData |-> <<ERow(EbUpper, <<"3">>, RD, D1), ERow(Eb, <<"5">>, T5, <<>>),
                       ERow(Sk, <<"0", "3">>, T5, D1), ERow(Xx, <<"1">>, T5, D1),
                       ERow(Sk, <<"7">>, BracketTitle, <<>>)>>,
     releaseData |-> <<RRow(Ep105, Y2020, <<"c">>, <<>>),
                       RRow(Ep03, ToBeReleased, <<>>, <<"e">>)>>,
     catalog |-> <<CatalogSeason("s1", 1, Old, <<>>,
                     <<CatalogEpisode("e13", 3, RD, <<>>, <<>>),
                       CatalogEpisode("e15", 5, Old, <<>>, <<>>)>>),
                   CatalogSeason("s2", 2, Sk, <<>>,
                     <<CatalogEpisode("e23", 3, Old, <<>>, <<>>)>>)>>]

\* the specials season, not yet titled "Specials" on the server: the two
\* sentinel arcs and a lower-case "specials" arc; a release date that holds
\* the "To Be Released" text with a year after it, and one the server already has
WorldSpecials ==
    [name |-> "specials",
     seasonMapping |-> <<SRow(<<"9">>, Specials, SD), SRow(<<"1">>, Eb, <<>>)>>,
     episodeData |-> <<ERow(Specials, <<"1">>, RD, <<>>), ERow(FanLetter, <<"2">>, T5, <<>>),
                       ERow(SpecialsLower, <<"3">>, T5, <<>>)>>,
     releaseData |-> <<RRow(Ep01, ToBeReleasedSoon, <<>>, <<>>),
                       RRow(Ep02, Y2020, <<>>, <<>>)>>,
     catalog |-> <<CatalogSeason("s0", 0, Old, <<>>,
                     <<CatalogEpisode("e01", 1, Old, <<>>, <<>>),
                       CatalogEpisode("e02", 2, T5, <<>>, Y2020),
                       CatalogEpisode("e03", 3, Old, <<>>, <<>>)>>)>>]

Worlds == {WorldE2E, WorldMain, WorldSpecials}

Servers == {"A", "B"}

Services == {"plex", "jellyfin"}

Replies == {"ok", "unauthorized", "error"}

UpdateOptionsSet ==
    [title : BOOLEAN, seasonTitle : BOOLEAN, description : BOOLEAN, date : BOOLEAN,
     dryRun : BOOLEAN]

(***************************************************************************)
(* State                                                                   *)
(***************************************************************************)
VARIABLES
    world,              \* the spreadsheets (remote) and the show as server "A" first holds it
    dom,                \* the option checkboxes of the page
    plex,               \* server -> the show tree it holds now (server "B": no season)
    selectedServer,     \* state.selectedServer ("none" for null)
    selectedShow,       \* state.selectedShow ("none" for null)
    currentService,     \* state.currentService
    seasonMappingData,  \* state.seasonMappingData
    episodeData,        \* state.episodeData
    releaseData,        \* state.releaseData
    operationCancelled, \* state.operationCancelled
    run,                \* the activation of applyOnePaceEdits (the latest one)
    calls,              \* the updateMetadata calls this activation issued, in order
    runs,               \* invocations of applyOnePaceEdits so far
    failures,           \* transport replies that were not ok, in this activation
    switches,           \* switchTab / selectServer events during this activation
    processedFiles,     \* state.processedFiles: the names of the selected files
    rename,             \* the activation of renameMediaFiles (the latest one)
    renames,            \* invocations of renameMediaFiles so far
    csvText,            \* the argument of a call of Utils.parseCSV
    csvResult           \* what that call returned (null before it returns)

stateVars ==
    <<selectedServer, selectedShow, currentService, seasonMappingData, episodeData,
      releaseData, operationCancelled>>

vars ==
    <<world, dom, plex, selectedServer, selectedShow, currentService, seasonMappingData,
      episodeData, releaseData, operationCancelled, run, calls, runs, failures, switches,
      processedFiles, rename, renames, csvText, csvResult>>

renameVars == <<processedFiles, rename, renames>>

csvVars == <<csvText, csvResult>>

\* an activation of renameMediaFiles before it is invoked; files is the array
\* the loop iterates
NewRename ==
    [pc |-> "idle", outcome |-> "none", files |-> <<>>, fi |-> 0, processedCount |-> 0,
     renamedCount |-> 0, log |-> <<>>]

\* a dataset field of state: null, or the parsed rows
NullData == [isNull |-> TRUE, rows |-> <<>>]

Data(rows) == [isNull |-> FALSE, rows |-> rows]

AllOff ==
    [title |-> FALSE, seasonTitle |-> FALSE, description |-> FALSE, date |-> FALSE,
     dryRun |-> FALSE]

\* what is remembered of the activation before the latest one: whether it
\* was a dry run that completed with the whole tree of a server and without
\* the cancellation flag set, the server, and its lines about items
NoPrevious == [dry |-> FALSE, server |-> "none", events |-> <<>>, stopped |-> FALSE]

\* an activation before it is invoked; fetchNonOk counts the replies to the
\* requests of getShowMetadata that were not ok
NewRun ==
    [pc |-> "idle", outcome |-> "none", fetchServer |-> "none", showMetadata |-> <<>>,
     fetchNonOk |-> 0, updateOptions |-> AllOff, si |-> 0, ei |-> 0, totalUpdates |-> 0,
     log |-> <<>>, previous |-> NoPrevious]

\* a writeOutput line: what it reports, the item, the changed fields, a count
Ev(kind, item, keys, n) == [ev |-> kind, item |-> item, keys |-> keys, n |-> n]

Logged(rr, e) == [rr EXCEPT !.log = Append(@, e)]

\* the positions at which the activation is suspended in an await
AwaitPcs ==
    {"awaitSheets", "awaitShow", "awaitSeasonTitle", "awaitSeasonDesc", "awaitEp",
     "sleepEp", "sleepSeason"}

InProgress == run.pc \notin {"idle", "done"}

\* the activation is not in the middle of a synchronous stretch: the event
\* loop can run another handler or resume a promise
Quiescent == run.pc \in AwaitPcs \cup {"idle", "done"}

\* the replies among `replies` that are not ok
RECURSIVE NonOk(_)
NonOk(replies) ==
    IF replies = <<>> THEN 0
    ELSE (IF Head(replies) = "ok" THEN 0 ELSE 1) + NonOk(Tail(replies))

\* OnePaceManager constructor
Constructed ==
    /\ world \in Worlds
    /\ dom \in UpdateOptionsSet
    /\ plex = [s \in Servers |-> IF s = "A" THEN world.catalog ELSE <<>>]
    /\ selectedServer = "none"
    /\ selectedShow = "none"
    /\ currentService = "plex"
    /\ seasonMappingData = NullData
    /\ episodeData = NullData
    /\ releaseData = NullData
    /\ operationCancelled = FALSE
    /\ run = NewRun
    /\ calls = <<>>
    /\ runs = 0
    /\ failures = 0
    /\ switches = 0
    /\ processedFiles = <<>>
    /\ rename = NewRename
    /\ renames = 0

\* the page after construction; Utils.parseCSV is followed on its own below
Init == Constructed /\ csvText = <<>> /\ csvResult = NullData

(***************************************************************************)
(* applyOnePaceEdits                                                       *)
(***************************************************************************)
\* a variant of the catch block that leaves the activation where it threw
FailedStays(rr) == rr

\* the catch block: the error is logged, the status is "Update process failed"
Failed(rr) == [Logged(rr, Ev("error", "", {}, 0)) EXCEPT !.pc = "done", !.outcome = "Failed"]

\* after the season loop: the summary with the count, status "Completed - n"
Finished(rr) ==
    [Logged(rr, Ev("finished", "", {}, rr.totalUpdates)) EXCEPT
       !.pc = "done", !.outcome = "Completed"]

\* a variant that takes the dry-run branch when the box is unchecked
IsDryRunInverted(updateOptions) == ~updateOptions.dryRun

\* a variant that never takes the dry-run branch
IsDryRunNever(updateOptions) == FALSE

\* the lines of a log that report on a season or an episode
ItemEvents(log) == SelectSeq(log, LAMBDA e : e.item # "")

\* the record kept of the activation that a new invocation replaces
\* (stopped: the flag as the new invocation finds it)
Previous ==
    IF /\ run.outcome = "Completed"
       /\ run.updateOptions.dryRun
       /\ run.fetchNonOk = 0
       /\ ~operationCancelled
    THEN [dry |-> TRUE, server |-> run.fetchServer, events |-> ItemEvents(run.log),
          stopped |-> FALSE]
    ELSE [NoPrevious EXCEPT !.stopped = operationCancelled]

\* a variant of the start of a run that leaves the flag as it finds it
FlagKept == operationCancelled

\* `this.state.operationCancelled = false` at the start of a run
FlagAtStart == FALSE

\* the invocations followed in one behaviour
RunLimit == IF dom.dryRun THEN MaxDryRuns ELSE MaxRuns

\* whether the dry-run branch is taken instead of the adapter call
IsDryRun(updateOptions) == updateOptions.dryRun

\* invocation up to the first await: the guard on the show, the reset of the
\* cancellation flag, the test whether the datasets are loaded
StartApply ==
    /\ run.pc \in {"idle", "done"}
    /\ runs < RunLimit
    /\ runs' = runs + 1
    /\ calls' = <<>>
    /\ failures' = 0
    /\ switches' = 0
    /\ IF selectedShow = "none"
       THEN /\ run' = [Logged(NewRun, Ev("noshow", "", {}, 0)) EXCEPT
                         !.pc = "done", !.outcome = "NotStarted", !.previous = Previous]
            /\ UNCHANGED operationCancelled
       ELSE /\ operationCancelled' = FlagAtStart
            /\ run' = [Logged(NewRun, Ev("started", "", {}, 0)) EXCEPT
                         !.previous = Previous,
                         !.pc = IF seasonMappingData.isNull \/ episodeData.isNull
                                THEN "awaitSheets" ELSE "fetchShow"]
    /\ UNCHANGED <<renameVars, csvVars, world, dom, plex, selectedServer, selectedShow, currentService,
                   seasonMappingData, episodeData, releaseData>>

\* a variant that goes on when at least one of the three sheets was fetched
GetAllDataAnyOk(replies) == \E i \in 1..3 : FetchWithCORS(replies[i]) = "ok"

\* GoogleSheetsAPI.getAllData settles: Promise.all of the three sheet requests,
\* each of which throws unless its response is ok
GetAllDataOk(replies) == \A i \in 1..3 : FetchWithCORS(replies[i]) = "ok"

\* a variant that stores every sheet that arrived and goes on when the
\* season and episode sheets are among them
SheetsResolvePartial(replies) ==
    /\ run.pc = "awaitSheets"
    /\ failures + NonOk(replies) <= MaxFailures
    /\ failures' = failures + NonOk(replies)
    /\ seasonMappingData' = IF replies[1] = "ok" THEN Data(world.seasonMapping) ELSE NullData
    /\ episodeData' = IF replies[2] = "ok" THEN Data(world.episodeData) ELSE NullData
    /\ releaseData' = IF replies[3] = "ok" THEN Data(world.releaseData) ELSE NullData
    /\ run' = IF replies[1] = "ok" /\ replies[2] = "ok"
              THEN [Logged(run, Ev("sheets-loaded", "", {}, 0)) EXCEPT !.pc = "fetchShow"]
              ELSE Failed(run)
    /\ UNCHANGED <<renameVars, csvVars, world, dom, plex, selectedServer, selectedShow, currentService,
                   operationCancelled, calls, runs, switches>>

SheetsResolve(replies) ==
    /\ run.pc = "awaitSheets"
    /\ failures + NonOk(replies) <= MaxFailures
    /\ failures' = failures + NonOk(replies)
    /\ IF GetAllDataOk(replies)
       THEN /\ seasonMappingData' = Data(world.seasonMapping)
            /\ episodeData' = Data(world.episodeData)
            /\ releaseData' = Data(world.releaseData)
            /\ run' = [Logged(run, Ev("sheets-loaded", "", {}, 0)) EXCEPT !.pc = "fetchShow"]
       ELSE /\ run' = Failed(run)
            /\ UNCHANGED <<seasonMappingData, episodeData, releaseData>>
    /\ UNCHANGED <<renameVars, csvVars, world, dom, plex, selectedServer, selectedShow, currentService,
                   operationCancelled, calls, runs, switches>>

\* the dispatch on state.currentService for the show tree.  JellyfinAPI has no
\* getShowMetadata and a null server has no scheme: both throw a TypeError,
\* which the catch block of the run takes.
FetchShow ==
    /\ run.pc = "fetchShow"
    /\ IF currentService = "plex" /\ selectedServer # "none"
       THEN run' = [run EXCEPT !.pc = "awaitShow", !.fetchServer = selectedServer]
       ELSE run' = Failed(run)
    /\ UNCHANGED <<renameVars, csvVars, world, dom, plex, stateVars, calls, runs, failures, switches>>

\* a variant that goes on with the tree as it was first seen, whatever the
\* server of the request holds now
ShowResolveStale(seasonsReply, episodeReplies) ==
    /\ run.pc = "awaitShow"
    /\ seasonsReply = "ok" /\ \A i \in DOMAIN episodeReplies : episodeReplies[i] = "ok"
    /\ run' = [Logged(run, Ev("show-loaded", "", {}, Len(world.catalog))) EXCEPT
                 !.pc = "seasonTop", !.showMetadata = world.catalog,
                 !.updateOptions = dom, !.totalUpdates = 0, !.si = 1]
    /\ UNCHANGED <<renameVars, csvVars, world, dom, plex, stateVars, calls, runs, failures, switches>>

\* getShowMetadata settles; then the options are read from the page and the
\* season loop is entered.  A request that is not sent (no such season, or
\* the seasons request already failed) has no reply: its place holds "ok".
ShowResolve(seasonsReply, episodeReplies) ==
    /\ run.pc = "awaitShow"
    /\ \A i \in DOMAIN episodeReplies :
          (seasonsReply # "ok" \/ i > Len(plex[run.fetchServer])) => episodeReplies[i] = "ok"
    /\ failures + NonOk(<<seasonsReply>> \o episodeReplies) <= MaxFailures
    /\ failures' = failures + NonOk(<<seasonsReply>> \o episodeReplies)
    /\ LET got == GetShowMetadata(plex[run.fetchServer], seasonsReply, episodeReplies)
       IN IF got.failed
          THEN run' = [Failed(run) EXCEPT
                         !.fetchNonOk = NonOk(<<seasonsReply>> \o episodeReplies)]
          ELSE run' = [Logged(run, Ev("show-loaded", "", {}, Len(got.seasons))) EXCEPT
                         !.pc = "seasonTop", !.showMetadata = got.seasons,
                         !.fetchNonOk = NonOk(<<seasonsReply>> \o episodeReplies),
                         !.updateOptions = dom, !.totalUpdates = 0, !.si = 1]
    /\ UNCHANGED <<renameVars, csvVars, world, dom, plex, stateVars, calls, runs, switches>>

\* a variant in which the error of one item ends the run
UpdateFailedAborts(rr, e) == Failed(rr)

\* the catch block of an update site: the error line, and the loop goes on
UpdateFailed(rr, e) == Logged(rr, e)

\* an updateMetadata call as it is issued
Call(server, itemId, updates) ==
    [server |-> server, id |-> itemId, updates |-> updates, result |-> "pending"]

\* a variant in which a success that arrives after the cancellation is
\* neither logged nor counted
UpdateSucceededUnlessCancelled(rr, e, okPc) ==
    IF operationCancelled
    THEN [rr EXCEPT !.pc = okPc]
    ELSE [Logged(rr, e) EXCEPT !.pc = okPc, !.totalUpdates = @ + 1]

\* after the call of an update site: the success line and totalUpdates++
UpdateSucceeded(rr, e, okPc) ==
    [Logged(rr, e) EXCEPT !.pc = okPc, !.totalUpdates = @ + 1]

\* a variant of the update sites that issues the call without awaiting it
UpdateSiteNotAwaited(rr, site, itemId, updates, awaitPc, skipped, livePc) ==
    IF IsDryRun(rr.updateOptions)
    THEN /\ run' = Logged(skipped, Ev("dry-" \o site, itemId, updates.keys, 0))
         /\ UNCHANGED calls
    ELSE /\ calls' = Append(calls, Call(selectedServer, itemId, updates))
         /\ run' = skipped

\* The three update sites share their shape: a dry run logs the would-be
\* update; a live run calls the adapter only when the current service is plex
\* (a null server makes the call throw at once, into the site's own catch),
\* and with any other service falls through to the success line and the
\* counter.  `site` is "season-title", "season-desc" or "episode"; awaitPc is
\* the position of the await, skipped the activation as it goes on without a
\* call, livePc the position after the success line.
UpdateSite(rr, site, itemId, updates, awaitPc, skipped, livePc) ==
    IF IsDryRun(rr.updateOptions)
    THEN /\ run' = Logged(skipped, Ev("dry-" \o site, itemId, updates.keys, 0))
         /\ UNCHANGED calls
    ELSE IF currentService = "plex"
    THEN IF selectedServer = "none"
         THEN /\ run' = UpdateFailed(skipped, Ev("failed-" \o site, itemId, updates.keys, 0))
              /\ UNCHANGED calls
         ELSE /\ calls' = Append(calls, Call(selectedServer, itemId, updates))
              /\ run' = [rr EXCEPT !.pc = awaitPc]
    ELSE /\ run' = UpdateSucceeded(rr, Ev("updated-" \o site, itemId, updates.keys, 0), livePc)
         /\ UNCHANGED calls

\* a variant of the season loop without its cancellation check
SeasonLoopNeverCancelled == FALSE

\* the cancellation check at the top of the season loop
SeasonLoopCancelled == operationCancelled

\* the cancellation check at the top of the episode loop
EpisodeLoopCancelled == operationCancelled

\* top of the season loop: end of the loop, the cancellation check, the
\* season title update
SeasonTop ==
    /\ run.pc = "seasonTop"
    /\ IF run.si > Len(run.showMetadata)
       THEN run' = Finished(run) /\ UNCHANGED calls
       ELSE IF SeasonLoopCancelled
       THEN run' = Finished(Logged(run, Ev("cancelled", "", {}, 0))) /\ UNCHANGED calls
       ELSE LET season == run.showMetadata[run.si]
            IN IF SeasonTitleNeeded(run.updateOptions, seasonMappingData.rows, season)
               THEN UpdateSite(run, "season-title", season.id,
                               SeasonTitleUpdates(seasonMappingData.rows, season),
                               "awaitSeasonTitle", [run EXCEPT !.pc = "seasonDesc"],
                               "seasonDesc")
               ELSE run' = [run EXCEPT !.pc = "seasonDesc"] /\ UNCHANGED calls
    /\ UNCHANGED <<renameVars, csvVars, world, dom, plex, stateVars, runs, failures, switches>>

\* the season description update; the episode loop starts after it
SeasonDesc ==
    /\ run.pc = "seasonDesc"
    /\ LET rr == [run EXCEPT !.ei = 1]
           season == rr.showMetadata[rr.si]
       IN IF SeasonDescriptionNeeded(rr.updateOptions, seasonMappingData.rows, season)
          THEN UpdateSite(rr, "season-desc", season.id,
                          SeasonDescriptionUpdates(seasonMappingData.rows, season),
                          "awaitSeasonDesc", [rr EXCEPT !.pc = "epTop"], "epTop")
          ELSE run' = [rr EXCEPT !.pc = "epTop"] /\ UNCHANGED calls
    /\ UNCHANGED <<renameVars, csvVars, world, dom, plex, stateVars, runs, failures, switches>>

\* a variant that counts an episode without sheet data as updated
EpisodeSkippedCounted(rr, episode) ==
    [Logged(rr, Ev("nodata", episode.id, {}, 0)) EXCEPT !.totalUpdates = @ + 1]

\* an episode whose key has no sheet data: the warning line, then continue
EpisodeSkipped(rr, episode) == Logged(rr, Ev("nodata", episode.id, {}, 0))

\* top of the episode loop: end of the loop, the cancellation check, the
\* lookup, the diff and the episode update
EpTop ==
    /\ run.pc = "epTop"
    /\ LET season == run.showMetadata[run.si]
           next == [run EXCEPT !.ei = @ + 1]
       IN IF run.ei > Len(season.episodes) \/ EpisodeLoopCancelled
          THEN run' = [run EXCEPT !.pc = "sleepSeason"] /\ UNCHANGED calls
          ELSE LET episode == season.episodes[run.ei]
                   key == CatalogKey(season.number, episode.number)
                   episodeLookup == EpisodeLookup(episodeData.rows, seasonMappingData.rows)
               IN IF ~Has(episodeLookup, key)
                  THEN run' = EpisodeSkipped(next, episode)
                       /\ UNCHANGED calls
                  ELSE LET updates == EpisodeUpdates(run.updateOptions, episode,
                                                     episodeLookup[key], releaseData.rows)
                       IN IF updates.keys = {}
                          THEN run' = Logged(next, Ev("noupdates", episode.id, {}, 0))
                               /\ UNCHANGED calls
                          ELSE UpdateSite(run, "episode", episode.id, updates,
                                          "awaitEp", next, "sleepEp")
    /\ UNCHANGED <<renameVars, csvVars, world, dom, plex, stateVars, runs, failures, switches>>

\* PlexAPI.updateMetadata settles: it throws unless the response is ok
UpdateMetadataOk(reply) == FetchWithCORS(reply) = "ok"

\* an awaited update settles: on success the success line and the counter
\* (and, for an episode, the pacing sleep); on failure the error line
UpdateResolve(reply, site, awaitPc, okPc, failedRec) ==
    /\ run.pc = awaitPc
    /\ LET i == Len(calls)
           c == calls[i]
       IN IF UpdateMetadataOk(reply)
          THEN /\ plex' = [plex EXCEPT ![c.server] = ServerUpdate(@, c.id, c.updates)]
               /\ calls' = [calls EXCEPT ![i].result = "ok"]
               /\ run' = UpdateSucceeded(run, Ev("updated-" \o site, c.id, c.updates.keys, 0),
                                         okPc)
               /\ UNCHANGED failures
          ELSE /\ failures < MaxFailures
               /\ failures' = failures + 1
               /\ calls' = [calls EXCEPT ![i].result = "failed"]
               /\ run' = UpdateFailed(failedRec, Ev("failed-" \o site, c.id, c.updates.keys, 0))
               /\ UNCHANGED plex
    /\ UNCHANGED <<renameVars, csvVars, world, dom, stateVars, runs, switches>>

SeasonTitleResolve(reply) ==
    UpdateResolve(reply, "season-title", "awaitSeasonTitle", "seasonDesc",
                  [run EXCEPT !.pc = "seasonDesc"])

SeasonDescResolve(reply) ==
    UpdateResolve(reply, "season-desc", "awaitSeasonDesc", "epTop",
                  [run EXCEPT !.pc = "epTop"])

EpResolve(reply) ==
    UpdateResolve(reply, "episode", "awaitEp", "sleepEp",
                  [run EXCEPT !.pc = "epTop", !.ei = @ + 1])

\* Utils.sleep(100) after a successful live episode update
SleepEpDone ==
    /\ run.pc = "sleepEp"
    /\ run' = [run EXCEPT !.pc = "epTop", !.ei = @ + 1]
    /\ UNCHANGED <<renameVars, csvVars, world, dom, plex, stateVars, calls, runs, failures, switches>>

\* Utils.sleep(200) at the end of each season
SleepSeasonDone ==
    /\ run.pc = "sleepSeason"
    /\ run' = [run EXCEPT !.pc = "seasonTop", !.si = @ + 1]
    /\ UNCHANGED <<renameVars, csvVars, world, dom, plex, stateVars, calls, runs, failures, switches>>

(***************************************************************************)
(* The other handlers on the shared state                                  *)
(***************************************************************************)
\* the other handlers are followed while an activation is in progress or
\* another invocation can still follow
Observed == InProgress \/ runs < RunLimit

\* a switch during a run is counted against MaxSwitches
SwitchCounted ==
    IF InProgress
    THEN switches < MaxSwitches /\ switches' = switches + 1
    ELSE UNCHANGED switches

StopOperation ==
    /\ Quiescent
    /\ Observed
    /\ operationCancelled' = TRUE
    /\ UNCHANGED <<renameVars, csvVars, world, dom, plex, selectedServer, selectedShow, currentService,
                   seasonMappingData, episodeData, releaseData, run, calls, runs, failures,
                   switches>>

\* switchTab(tabName), to the other tab
SwitchTab(tabName) ==
    /\ Quiescent
    /\ Observed
    /\ tabName # currentService
    /\ currentService' = tabName
    /\ SwitchCounted
    /\ UNCHANGED <<renameVars, csvVars, world, dom, plex, selectedServer, selectedShow, seasonMappingData,
                   episodeData, releaseData, operationCancelled, run, calls, runs, failures>>

\* selectServer(index), of another server of the list
SelectServer(server) ==
    /\ Quiescent
    /\ Observed
    /\ server # selectedServer
    /\ selectedServer' = server
    /\ SwitchCounted
    /\ UNCHANGED <<renameVars, csvVars, world, dom, plex, selectedShow, currentService, seasonMappingData,
                   episodeData, releaseData, operationCancelled, run, calls, runs, failures>>

\* selectShow(index)
SelectShow ==
    /\ Quiescent
    /\ selectedShow = "none"
    /\ selectedShow' = "show"
    /\ UNCHANGED <<renameVars, csvVars, world, dom, plex, selectedServer, currentService, seasonMappingData,
                   episodeData, releaseData, operationCancelled, run, calls, runs, failures,
                   switches>>

Next ==
    \/ StartApply
    \/ \E replies \in [1..3 -> Replies] : SheetsResolve(replies)
    \/ FetchShow
    \/ \E seasonsReply \in Replies, episodeReplies \in [1..Len(world.catalog) -> Replies] :
          ShowResolve(seasonsReply, episodeReplies)
    \/ SeasonTop
    \/ \E reply \in Replies : SeasonTitleResolve(reply)
    \/ SeasonDesc
    \/ \E reply \in Replies : SeasonDescResolve(reply)
    \/ EpTop
    \/ \E reply \in Replies : EpResolve(reply)
    \/ SleepEpDone
    \/ SleepSeasonDone
    \/ StopOperation
    \/ \E tabName \in Services : SwitchTab(tabName)
    \/ \E server \in Servers : SelectServer(server)
    \/ SelectShow

Spec == Init /\ [][Next]_vars

(***************************************************************************)
(* renameMediaFiles                                                        *)
(***************************************************************************)
SetMin(S) == CHOOSE x \in S : \A y \in S : x <= y

SetMax(S) == CHOOSE x \in S : \A y \in S : x >= y

IsSpace(c) == c = " "

\* the group episodes of FILE_PATTERNS.onePace: \d+(?:-\d+)?
EpisodesGroupOk(inner) ==
    /\ inner # <<>>
    /\ \A i \in DOMAIN inner : IsDigit(inner[i]) \/ inner[i] = "-"
    /\ IsDigit(inner[1])
    /\ IsDigit(inner[Len(inner)])
    /\ Cardinality({i \in DOMAIN inner : inner[i] = "-"}) <= 1

\* the position of the "]" that closes "[episodes" opened at s, 0 if none
BracketEnd(name, s) ==
    LET ks == {k \in (s + 1)..Len(name) : name[k] = "]"}
    IN IF name[s] # "[" \/ ks = {} THEN 0
       ELSE IF EpisodesGroupOk(SubSeq(name, s + 1, SetMin(ks) - 1)) THEN SetMin(ks) ELSE 0

\* the first position from p on that holds no white space (Len + 1 if none)
FirstNonSpace(name, p) ==
    SetMin({q \in p..Len(name) : ~IsSpace(name[q])} \cup {Len(name) + 1})

\* the end of the group episode that starts at e: \d{1,2}, greedy
EpisodeEnd(name, e) == IF e + 1 <= Len(name) /\ IsDigit(name[e + 1]) THEN e + 1 ELSE e

\* the end of the pattern from p on: (?:\s+(?<title>.+?))?\.
RestOk(name, p) ==
    /\ p <= Len(name)
    /\ \/ name[p] = "."
       \/ IsSpace(name[p]) /\ \E t \in (p + 2)..Len(name) : name[t] = "."

\* the pattern matches with the group arc at a..b
ArcOk(name, a, b) ==
    /\ b + 1 <= Len(name)
    /\ IsSpace(name[b + 1])
    /\ LET e == FirstNonSpace(name, b + 1)
       IN e <= Len(name) /\ IsDigit(name[e]) /\ RestOk(name, EpisodeEnd(name, e) + 1)

\* the starts of the group arc with which the pattern matches, the "]" at k
ArcStarts(name, k) ==
    {a \in (k + 2)..Len(name) :
        /\ \A p \in (k + 1)..(a - 1) : IsSpace(name[p])
        /\ \E b \in a..Len(name) : ArcOk(name, a, b)}

\* FILE_PATTERNS.onePace.exec(fileName): the leftmost match; the white space
\* before the arc is greedy, the arc lazy.  [ok, arc, episode]
Exec(name) ==
    LET starts == {s \in DOMAIN name :
                      BracketEnd(name, s) # 0 /\ ArcStarts(name, BracketEnd(name, s)) # {}}
    IN IF starts = {} THEN [ok |-> FALSE, arc |-> <<>>, episode |-> <<>>]
       ELSE LET k == BracketEnd(name, SetMin(starts))
                a == SetMax(ArcStarts(name, k))
                b == SetMin({x \in a..Len(name) : ArcOk(name, a, x)})
                e == FirstNonSpace(name, b + 1)
            IN [ok |-> TRUE, arc |-> SubSeq(name, a, b),
                episode |-> SubSeq(name, e, EpisodeEnd(name, e))]

\* fileName.substring(fileName.lastIndexOf(".")): the whole name when it has
\* no dot (substring(-1) starts at 0)
FileExt(name) ==
    LET dots == {i \in DOMAIN name : name[i] = "."}
    IN IF dots = {} THEN name ELSE SubSeq(name, SetMax(dots), Len(name))

VideoExtensions ==
    {<<".", "m", "k", "v">>, <<".", "m", "p", "4">>, <<".", "a", "v", "i">>,
     <<".", "m", "4", "v">>, <<".", "m", "o", "v">>, <<".", "w", "m", "v">>,
     <<".", "f", "l", "v">>, <<".", "w", "e", "b", "m">>}

IsVideo(name) == ToLowerCase(FileExt(name)) \in VideoExtensions

\* Utils.sanitizeFilename
SanitizeFilename(filename) ==
    Trim(SelectSeq(filename,
                   LAMBDA c : c \notin {"\\", "/", ":", "*", "?", "\"", "<", ">", "|"}))

\* titleToSeason of renameMediaFiles: the Specials row maps to the string "0"
RECURSIVE RenameTitleToSeasonFrom(_, _)
RenameTitleToSeasonFrom(rows, m) ==
    IF rows = <<>> THEN m
    ELSE LET row == Head(rows)
             m2 == IF row.part # <<>> /\ row.title_en # <<>>
                   THEN Put(m, Trim(ToLowerCase(row.title_en)),
                            IF row.title_en = Specials THEN StrZero ELSE ParseInt(row.part))
                   ELSE m
         IN RenameTitleToSeasonFrom(Tail(rows), m2)

RenameTitleToSeason(rows) == RenameTitleToSeasonFrom(rows, EmptyObj)

\* seasonNum of an episode row's arc in renameMediaFiles (arc already trimmed)
RenameSeasonNum(arc, titleToSeason) ==
    IF arc = Specials \/ arc = FanLetter
    THEN Num(0)
    ELSE OrNull(Get(titleToSeason, ToLowerCase(arc)))

\* episodeLookup of renameMediaFiles: key -> title
RECURSIVE RenameEpisodeLookupFrom(_, _, _)
RenameEpisodeLookupFrom(rows, titleToSeason, m) ==
    IF rows = <<>> THEN m
    ELSE LET row == Head(rows)
             arc == Trim(row.arc_title)
             seasonNum == RenameSeasonNum(arc, titleToSeason)
             m2 == IF arc = <<>> \/ row.arc_part = <<>> \/ row.title_en = <<>>
                   THEN m
                   ELSE IF seasonNum # NullV
                        THEN Put(m, RowKey(seasonNum, row.arc_part), row.title_en)
                        ELSE m
         IN RenameEpisodeLookupFrom(Tail(rows), titleToSeason, m2)

RenameEpisodeLookup(episodeRows, seasonRows) ==
    RenameEpisodeLookupFrom(episodeRows, RenameTitleToSeason(seasonRows), EmptyObj)

\* seasonNumber of a file name's arc (arcTitle already trimmed)
FileSeasonNumber(arcTitle, titleToSeason) ==
    IF arcTitle = Specials
    THEN Num(0)
    ELSE OrNull(Get(titleToSeason, ToLowerCase(arcTitle)))

NamePrefix == <<"O", "n", "e", " ", "P", "a", "c", "e", " ", "-", " ", "S">>

\* newName
NewName(seasonNumber, episodeNumber, epTitle, fileExt) ==
    NamePrefix \o PadStart2(ValToStr(seasonNumber)) \o <<"E">>
      \o PadStart2(ValToStr(episodeNumber)) \o <<" ", "-", " ">>
      \o SanitizeFilename(epTitle) \o fileExt

\* a writeOutput line of renameMediaFiles: what it reports, the file, the
\* season its arc resolved to, the new name, the two counts
RenameEv(kind, file, season, text, processed, renamed) ==
    [ev |-> kind, file |-> file, season |-> season, text |-> text,
     processed |-> processed, renamed |-> renamed]

RenameLogged(rr, kind, file, season, text) ==
    [rr EXCEPT !.log = Append(@, RenameEv(kind, file, season, text, 0, 0))]

\* file names of a selection
FileEb03 ==
    <<"[", "1", "]", " ", "E", "b", " ", "0", "3", ".", "m", "k", "v">>

FileFanLetter02 ==
    <<"[", "2", "]", " ", "O", "n", "e", " ", "P", "i", "e", "c", "e", " ",
      "F", "a", "n", " ", "L", "e", "t", "t", "e", "r", " ", "0", "2", ".",
      "m", "k", "v">>

FileSpecials01 ==
    <<"[", "3", "]", " ", "S", "p", "e", "c", "i", "a", "l", "s", " ", "0",
      "1", ".", "m", "p", "4">>

FileNotes ==
    <<"n", "o", "t", "e", "s", ".", "t", "x", "t">>

FileNoGroup ==
    <<"E", "b", " ", "0", "3", ".", "m", "k", "v">>

FileLowerSpecials03 ==
    <<"[", "4", "]", " ", "s", "p", "e", "c", "i", "a", "l", "s", " ", "0",
      "3", ".", "M", "K", "V">>

FileXx01 ==
    <<"[", "5", "-", "6", "]", " ", "X", "x", " ", "0", "1", " ", "e", "x",
      "t", "r", "a", ".", "m", "k", "v">>

\* a file that already carries the name renameMediaFiles proposes for it
FileRenamedSk07 == NamePrefix \o <<"0", "2", "E", "0", "7", " ", "-", " ">> \o BracketTitle
                     \o <<".", "m", "k", "v">>

FileNames ==
    {FileEb03, FileFanLetter02, FileSpecials01, FileNotes, FileNoGroup,
     FileLowerSpecials03, FileXx01, FileRenamedSk07}

\* the files of the media folder, in the order the folder lists them
FolderOrder ==
    <<FileEb03, FileFanLetter02, FileSpecials01, FileNotes, FileNoGroup,
      FileLowerSpecials03, FileXx01, FileRenamedSk07>>

\* the selections of the media folder: at least one file, each file once,
\* in the order of the folder
FileLists ==
    {SelectSeq(FolderOrder, LAMBDA f : f \in S) :
        S \in {T \in SUBSET FileNames : Cardinality(T) \in 1..MaxFiles}}

RenameInProgress == rename.pc \notin {"idle", "done"}

\* the change handler of the media folder input.  The loop of a run in
\* progress iterates the array it started with, so a selection made during
\* a run is not followed.  The handler only overwrites state.processedFiles:
\* a selection that is replaced before a run has read it leaves no trace,
\* so a new selection is followed once the last one has been run.
MediaFolderChange(files) ==
    /\ ~RenameInProgress
    /\ renames < MaxRenames
    /\ processedFiles = <<>> \/ (rename.pc = "done" /\ rename.files = processedFiles)
    /\ Len(files) > 0
    /\ processedFiles' = files
    /\ UNCHANGED <<rename, renames, csvVars, world, dom, plex, stateVars, run, calls, runs, failures,
                   switches>>

\* the catch block of renameMediaFiles
RenameFailed(rr) ==
    [RenameLogged(rr, "error", <<>>, NullV, <<>>) EXCEPT !.pc = "done", !.outcome = "Failed"]

\* invocation up to the first await
StartRename ==
    /\ ~RenameInProgress
    /\ renames < MaxRenames
    /\ renames' = renames + 1
    /\ IF Len(processedFiles) = 0
       THEN rename' = [RenameLogged(NewRename, "nofiles", <<>>, NullV, <<>>) EXCEPT
                         !.pc = "done", !.outcome = "NotStarted"]
       ELSE rename' = [RenameLogged(NewRename, "started", <<>>, NullV, <<>>) EXCEPT
                         !.pc = IF seasonMappingData.isNull \/ episodeData.isNull
                                THEN "awaitSheets" ELSE "file",
                         !.files = processedFiles, !.fi = 1]
    /\ UNCHANGED <<processedFiles, csvVars, world, dom, plex, stateVars, run, calls, runs, failures,
                   switches>>

\* getAllData settles for renameMediaFiles
RenameSheetsResolve(replies) ==
    /\ rename.pc = "awaitSheets"
    /\ IF GetAllDataOk(replies)
       THEN /\ seasonMappingData' = Data(world.seasonMapping)
            /\ episodeData' = Data(world.episodeData)
            /\ releaseData' = Data(world.releaseData)
            /\ rename' = [RenameLogged(rename, "sheets-loaded", <<>>, NullV, <<>>) EXCEPT
                            !.pc = "file", !.files = processedFiles]
       ELSE /\ rename' = RenameFailed(rename)
            /\ UNCHANGED <<seasonMappingData, episodeData, releaseData>>
    /\ UNCHANGED <<processedFiles, renames, csvVars, world, dom, plex, selectedServer, selectedShow,
                   currentService, operationCancelled, run, calls, runs, failures, switches>>

\* the proposed name differs from the file's: the line, renamedCount++, and
\* the pacing sleep of the same iteration
WouldRename(rr, fileName, seasonNumber, newName) ==
    [RenameLogged(rr, "would-rename", fileName, seasonNumber, newName) EXCEPT
       !.pc = "sleepFile", !.fi = rename.fi, !.renamedCount = @ + 1]

\* a variant that counts a file whose name is already right as renamed
AlreadyCorrectCounted(rr, fileName, seasonNumber, newName) ==
    [WouldRename(rr, fileName, seasonNumber, newName) EXCEPT
       !.log = Append(rr.log, RenameEv("already", fileName, seasonNumber, newName, 0, 0))]

\* the proposed name is the file's name: the line, nothing counted
AlreadyCorrect(rr, fileName, seasonNumber, newName) ==
    [RenameLogged(rr, "already", fileName, seasonNumber, newName) EXCEPT
       !.pc = "sleepFile", !.fi = rename.fi]

\* one iteration of the file loop, or the summary after the last one
RenameFile ==
    /\ rename.pc = "file"
    /\ IF rename.fi > Len(rename.files)
       THEN rename' = [rename EXCEPT
                         !.pc = "done", !.outcome = "Completed",
                         !.log = Append(@, RenameEv("summary", <<>>, NullV, <<>>,
                                                    rename.processedCount,
                                                    rename.renamedCount))]
       ELSE LET fileName == rename.files[rename.fi]
                next == [rename EXCEPT !.fi = @ + 1]
                counted == [next EXCEPT !.processedCount = @ + 1]
                match == Exec(fileName)
                titleToSeason == RenameTitleToSeason(seasonMappingData.rows)
                episodeLookup == RenameEpisodeLookup(episodeData.rows, seasonMappingData.rows)
                arcTitle == Trim(match.arc)
                episodeNumber == ParseInt(match.episode)
                seasonNumber == FileSeasonNumber(arcTitle, titleToSeason)
                key == RowKey(seasonNumber, ValToStr(episodeNumber))
            IN IF ~IsVideo(fileName)
               THEN rename' = next
               ELSE IF ~match.ok
               THEN rename' = RenameLogged(counted, "unparsable", fileName, NullV, <<>>)
               ELSE IF seasonNumber = NullV
               THEN rename' = RenameLogged(counted, "unknown-arc", fileName, NullV, arcTitle)
               ELSE IF ~Has(episodeLookup, key)
               THEN rename' = RenameLogged(counted, "no-title", fileName, seasonNumber, key)
               ELSE LET newName == NewName(seasonNumber, episodeNumber, episodeLookup[key],
                                           FileExt(fileName))
                    IN IF fileName = newName
                       THEN rename' = AlreadyCorrect(counted, fileName, seasonNumber, newName)
                       ELSE rename' = WouldRename(counted, fileName, seasonNumber, newName)
    /\ UNCHANGED <<processedFiles, renames, csvVars, world, dom, plex, stateVars, run, calls, runs,
                   failures, switches>>

\* Utils.sleep(50) at the end of an iteration
RenameSleepDone ==
    /\ rename.pc = "sleepFile"
    /\ rename' = [rename EXCEPT !.pc = "file", !.fi = @ + 1]
    /\ UNCHANGED <<processedFiles, renames, csvVars, world, dom, plex, stateVars, run, calls, runs,
                   failures, switches>>

NextRename ==
    \/ \E files \in FileLists : MediaFolderChange(files)
    \/ StartRename
    \/ \E replies \in [1..3 -> Replies] : RenameSheetsResolve(replies)
    \/ RenameFile
    \/ RenameSleepDone

\* the rename simulation alone, the option checkboxes left unchecked
InitRename == Init /\ dom = AllOff

SpecRename == InitRename /\ [][NextRename]_vars

(***************************************************************************)
(* A session with both handlers                                            *)
(***************************************************************************)
\* renameMediaFiles is not in the middle of a synchronous stretch
RenameQuiescent == rename.pc \in {"idle", "done", "awaitSheets", "sleepFile"}

\* the folders selected in the session
SessionFiles == {<<FileEb03>>, <<FileNotes, FileSpecials01>>}

\* The two handlers on one event loop, no option box checked: a handler
\* starts or resumes only while the other one is suspended in an await or
\* not running.  Neither button is disabled by the other handler, and the
\* rename button is not disabled by its own run.
NextSession ==
    \/ RenameQuiescent /\ StartApply
    \/ RenameQuiescent /\ \E replies \in [1..3 -> Replies] : SheetsResolve(replies)
    \/ RenameQuiescent /\ FetchShow
    \/ /\ RenameQuiescent
       /\ \E seasonsReply \in Replies, episodeReplies \in [1..Len(world.catalog) -> Replies] :
             ShowResolve(seasonsReply, episodeReplies)
    \/ RenameQuiescent /\ SeasonTop
    \/ RenameQuiescent /\ SeasonDesc
    \/ RenameQuiescent /\ EpTop
    \/ RenameQuiescent /\ SleepSeasonDone
    \/ RenameQuiescent /\ SelectShow
    \/ RenameQuiescent /\ \E server \in Servers : SelectServer(server)
    \/ Quiescent /\ \E files \in SessionFiles : MediaFolderChange(files)
    \/ Quiescent /\ StartRename
    \/ Quiescent /\ \E replies \in [1..3 -> Replies] : RenameSheetsResolve(replies)
    \/ Quiescent /\ RenameFile
    \/ Quiescent /\ RenameSleepDone

SpecSession == InitRename /\ [][NextSession]_vars

(***************************************************************************)
(* Properties of applyOnePaceEdits                                         *)
(***************************************************************************)
LogHas(kind) == \E i \in DOMAIN run.log : run.log[i].ev = kind

\* C1: in a run with dryRun set, updateMetadata is never called for a season
\* or an episode (no call is issued, no success line is written, the counter
\* stays 0), and the total reported at the end of the run is 0.
C1_DryRunNeverUpdates ==
    run.updateOptions.dryRun =>
        /\ calls = <<>>
        /\ run.totalUpdates = 0
        /\ \A i \in DOMAIN run.log :
              /\ run.log[i].ev \notin {"updated-season-title", "updated-season-desc",
                                       "updated-episode"}
              /\ run.log[i].ev = "finished" => run.log[i].n = 0

\* a completed dry run that logged a would-be update with its changed fields
C1_Witness ==
    /\ run.updateOptions.dryRun
    /\ run.outcome = "Completed"
    /\ \E i \in DOMAIN run.log :
          run.log[i].ev = "dry-episode" /\ run.log[i].keys # {}
    /\ \E i \in DOMAIN run.log :
          run.log[i].ev = "dry-season-title" /\ run.log[i].keys # {}

\* C2: when the cancellation flag is set between two seasons (the activation
\* is in the pause that ends season k, or at the top of the loop for season
\* k+1), the activation issues no further call, writes no further line about
\* a season or an episode and goes only to its end; what the servers hold is
\* left as it is.
C2_CancelBetweenSeasons ==
    [][(operationCancelled /\ run.pc \in {"sleepSeason", "seasonTop"}) =>
          /\ calls' = calls
          /\ plex' = plex
          /\ ItemEvents(run'.log) = ItemEvents(run.log)
          /\ run'.pc \in {"sleepSeason", "seasonTop", "done"}
          /\ run'.pc = "done" => run'.outcome = "Completed"]_vars

\* a run cancelled at the top of its second season, after an update of the
\* first season was applied, the second season left as the server held it
C2_Witness ==
    /\ operationCancelled
    /\ run.pc = "done"
    /\ LogHas("cancelled")
    /\ run.si = 2
    /\ Len(run.showMetadata) = 2
    /\ \E i \in DOMAIN calls : calls[i].result = "ok" /\ calls[i].id \in {"s1", "e13", "e15"}
    /\ \A i \in DOMAIN calls : calls[i].id \notin {"s2", "e23"}
    /\ plex["A"][2] = world.catalog[2]
    /\ plex["A"][1] # world.catalog[1]

\* C3: once the cancellation flag is set during a run, no new updateMetadata
\* call is started (the call in flight when it was set is the last one).
C3_NoCallAfterCancel ==
    [][(operationCancelled /\ InProgress) => Len(calls') <= Len(calls)]_vars

\* C4: when an updateMetadata call fails, the failure is logged, the counter
\* is not incremented, and the run goes on with the next item: the step
\* leaves the activation in the loop, and a run that issued a call never
\* ends in Failed.
C4_FailureIsolated ==
    /\ [](run.outcome = "Failed" => calls = <<>>)
    /\ [][(Len(calls') = Len(calls) /\ calls' # calls
            /\ calls'[Len(calls)].result = "failed") =>
              /\ run'.totalUpdates = run.totalUpdates
              /\ run'.outcome = "none"
              /\ run'.pc \in {"seasonDesc", "epTop"}
              /\ run'.si = run.si
              /\ run'.ei = IF run.pc = "awaitEp" THEN run.ei + 1 ELSE run.ei
              /\ Len(run'.log) = Len(run.log) + 1
              /\ run'.log[Len(run'.log)].ev \in {"failed-season-title", "failed-season-desc",
                                                 "failed-episode"}
              /\ run'.log[Len(run'.log)].item = calls[Len(calls)].id]_vars

\* a completed run in which a call failed and a later item was still updated
C4_Witness ==
    /\ run.outcome = "Completed"
    /\ \E i, j \in DOMAIN calls :
          i < j /\ calls[i].result = "failed" /\ calls[j].result = "ok"
    /\ run.totalUpdates = Len(calls) - 1

\* C5: when a request of the fetch of the show tree is answered with a
\* failure (the seasons request, or the episodes request of a season), the
\* run ends in Failed and nothing of the tree is processed: no line about a
\* season or an episode, no call.
C5_FetchFailureFailsRun ==
    run.fetchNonOk > 0 =>
        /\ run.outcome = "Failed"
        /\ calls = <<>>
        /\ ItemEvents(run.log) = <<>>

\* C6: updateMetadata is called at most once for a season or an episode in
\* one run.
C6_OneCallPerItem ==
    \A i, j \in DOMAIN calls : i < j => calls[i].id # calls[j].id

\* the options of the end-to-end scenario: only updateTitle
TitleOnly == [AllOff EXCEPT !.title = TRUE]

\* C7: end to end, with the season row (part 1, title T), the episode row
\* (arc T, part 3, title X) and the season 1 of the catalog holding episode 3
\* under another title: a live run with only updateTitle set, on the plex
\* tab throughout, not cancelled and with no failing request, calls
\* updateMetadata exactly once, for that episode, with only the title set to
\* X, and reports a count of 1.  While such a run is on its way it issues no
\* other call.
C7_EndToEnd ==
    (/\ world.name = "e2e"
     /\ InProgress \/ run.outcome = "Completed"
     /\ run.updateOptions = TitleOnly
     /\ run.fetchServer = "A"
     /\ run.showMetadata = world.catalog
     /\ switches = 0
     /\ failures = 0
     /\ ~operationCancelled) =>
        /\ \A i \in DOMAIN calls :
              /\ i = 1
              /\ calls[i].id = "e13"
              /\ calls[i].updates = [NoUpdates EXCEPT !.keys = {"title"}, !.title = RD]
        /\ run.outcome = "Completed" =>
              /\ Len(calls) = 1
              /\ calls[1].result = "ok"
              /\ run.log[Len(run.log)] = Ev("finished", "", {}, 1)
              /\ plex["A"][1].episodes[1].title = RD

\* the scenario ran to its end
C7_Witness ==
    /\ world.name = "e2e"
    /\ run.outcome = "Completed"
    /\ run.updateOptions = TitleOnly
    /\ run.fetchServer = "A"
    /\ run.showMetadata = world.catalog
    /\ switches = 0
    /\ failures = 0
    /\ ~operationCancelled
    /\ Len(calls) = 1
    /\ run.totalUpdates = 1

\* the episodes of a tree with the number of their season
EpisodesOf(tree) ==
    UNION {{[season |-> tree[i].number, episode |-> tree[i].episodes[j]] :
               j \in DOMAIN tree[i].episodes} : i \in DOMAIN tree}

\* the lines that close the processing of an episode that has a lookup entry
EpisodeOutcomes == {"dry-episode", "updated-episode", "failed-episode", "noupdates"}

\* C8: for every episode with a lookup entry, a title update is proposed
\* exactly when updateTitle is set and the catalog title differs from the
\* lookup title; it is proposed once, and its value is the lookup title.
C8_TitleDiff ==
    LET lookup == EpisodeLookup(episodeData.rows, seasonMappingData.rows)
    IN \A x \in EpisodesOf(run.showMetadata) :
          LET key == CatalogKey(x.season, x.episode.number)
              lines == {i \in DOMAIN run.log :
                          /\ run.log[i].item = x.episode.id
                          /\ run.log[i].ev \in EpisodeOutcomes}
              issued == {i \in DOMAIN calls : calls[i].id = x.episode.id}
          IN Has(lookup, key) =>
                LET differs == run.updateOptions.title /\ x.episode.title # lookup[key].title
                IN /\ Cardinality(lines) <= 1
                   /\ Cardinality(issued) <= 1
                   /\ \A i \in lines : ("title" \in run.log[i].keys) <=> differs
                   /\ \A i \in issued :
                         /\ ("title" \in calls[i].updates.keys) <=> differs
                         /\ differs => calls[i].updates.title = lookup[key].title

\* a run with updateTitle set that left the episode whose title is equal
\* without a title update and updated the title of the one that differs
C8_Witness ==
    /\ world.name = "main"
    /\ run.updateOptions.title
    /\ \E i \in DOMAIN run.log :
          /\ run.log[i].item = "e13"
          /\ run.log[i].ev \in EpisodeOutcomes
          /\ "title" \notin run.log[i].keys
    /\ \E i \in DOMAIN run.log :
          /\ run.log[i].item = "e15"
          /\ run.log[i].ev = "updated-episode"
          /\ "title" \in run.log[i].keys
    /\ \E i \in DOMAIN calls :
          calls[i].id = "e15" /\ calls[i].updates.title = T5 /\ calls[i].result = "ok"

\* the lines of renameMediaFiles written after the arc of a file was resolved
ResolvedLines == {"unknown-arc", "no-title", "already", "would-rename"}

\* C9: wherever an arc is resolved to a season, "Specials" and "One Piece Fan
\* Letter" resolve to 0 whatever the season map holds, and an arc that is not
\* in the season map resolves to null: for the episode rows of both lookups,
\* and for the arc of every file name renameMediaFiles has resolved.
C9_SentinelArcsResolveToZero ==
    LET sentinels == {Specials, FanLetter}
        applyMap == TitleToSeason(seasonMappingData.rows)
        renameMap == RenameTitleToSeason(seasonMappingData.rows)
    IN /\ \A i \in DOMAIN episodeData.rows :
             LET arc == Trim(episodeData.rows[i].arc_title)
             IN /\ arc \in sentinels =>
                      /\ ApplySeasonNum(arc, applyMap) = Num(0)
                      /\ RenameSeasonNum(arc, renameMap) = Num(0)
                /\ (arc \notin sentinels /\ ~Has(applyMap, ToLowerCase(arc))) =>
                      /\ ApplySeasonNum(arc, applyMap) = NullV
                      /\ RenameSeasonNum(arc, renameMap) = NullV
       /\ \A i \in DOMAIN rename.log :
             LET arc == Trim(Exec(rename.log[i].file).arc)
             IN rename.log[i].ev \in ResolvedLines =>
                   /\ arc \in sentinels => rename.log[i].season = Num(0)
                   /\ (arc \notin sentinels /\ ~Has(renameMap, ToLowerCase(arc))) =>
                         rename.log[i].season = NullV

\* the label carries tok as a token of its own: no digit next to it
IsToken(label, tok) ==
    \E p \in 1..(Len(label) - Len(tok) + 1) :
        /\ SubSeq(label, p, p + Len(tok) - 1) = tok
        /\ p = 1 \/ ~IsDigit(label[p - 1])
        /\ p + Len(tok) > Len(label) \/ ~IsDigit(label[p + Len(tok)])

\* C10: the release row selected for a catalog episode numbered n carries
\* the two-digit form of n as a token of its own in its label (a row
\* labelled with 105 is not selected for episode 5).
C10_ReleaseRowByToken ==
    (run.pc = "epTop" /\ run.updateOptions.date) =>
        \A x \in EpisodesOf(run.showMetadata) :
            LET i == ReleaseInfoIndex(releaseData.rows, x.episode.number)
            IN i # 0 => IsToken(releaseData.rows[i].label,
                                PadStart2(ToStr(x.episode.number)))

\* C11: two dry runs in a row with the same options, nothing cancelled, the
\* whole tree fetched from the same server both times: the second run writes
\* the same lines about the same items, with the same changed fields, as the
\* first.
C11_DryRunsRepeat ==
    (/\ run.outcome = "Completed"
     /\ run.updateOptions.dryRun
     /\ run.fetchNonOk = 0
     /\ ~operationCancelled
     /\ run.previous.dry
     /\ run.previous.server = run.fetchServer) =>
        ItemEvents(run.log) = run.previous.events

\* a second dry run that completed after a first one that proposed updates
C11_Witness ==
    /\ runs = 2
    /\ run.outcome = "Completed"
    /\ run.updateOptions.dryRun
    /\ run.fetchNonOk = 0
    /\ ~operationCancelled
    /\ run.previous.dry
    /\ run.previous.server = run.fetchServer
    /\ \E i \in DOMAIN run.previous.events :
          run.previous.events[i].ev = "dry-episode" /\ run.previous.events[i].keys # {}

\* C12: once the datasets are in memory, no dataset load succeeds again: an
\* invocation that finds them skips the load, and no load that was started
\* earlier completes after them.
C12_DatasetsLoadedOnce ==
    [][(~seasonMappingData.isNull /\ ~episodeData.isNull) =>
          /\ ~(run.pc = "awaitSheets" /\ run'.pc = "fetchShow")
          /\ ~(rename.pc = "awaitSheets" /\ rename'.pc = "file")
          /\ (run.pc \in {"idle", "done"} => run'.pc # "awaitSheets")
          /\ (rename.pc \in {"idle", "done"} => rename'.pc # "awaitSheets")]_vars

\* the updateMetadata calls of the activation that returned success
OkCalls == {i \in DOMAIN calls : calls[i].result = "ok"}

\* C13: a run that found the cancellation flag set in its season loop ends
\* with the summary line, and the count the summary reports is the number of
\* updates applied (calls that succeeded) up to then.
C13_CancelledRunReportsCount ==
    (run.pc = "done" /\ LogHas("cancelled")) =>
        /\ run.log[Len(run.log)].ev = "finished"
        /\ run.log[Len(run.log)].n = Cardinality(OkCalls)

\* the part of C13 that the code keeps: the summary is written, with the
\* running counter
C13_SummaryWritten ==
    (run.pc = "done" /\ LogHas("cancelled")) =>
        run.log[Len(run.log)] = Ev("finished", "", {}, run.totalUpdates)

\* C14: when the request of one of the three sheets fails while the run waits
\* for the datasets, the run ends Failed in that step: the datasets stay
\* unloaded, the show tree is not requested and no updateMetadata call is made.
C14_SheetFailureFailsRun ==
    [][(run.pc = "awaitSheets" /\ failures' > failures) =>
          /\ run'.pc = "done" /\ run'.outcome = "Failed"
          /\ run'.fetchServer = "none" /\ run'.showMetadata = <<>>
          /\ ~(\E i \in DOMAIN run'.log : run'.log[i].ev = "show-loaded")
          /\ calls' = <<>>
          /\ seasonMappingData'.isNull /\ episodeData'.isNull]_vars

C14_Witness ==
    /\ run.pc = "done" /\ run.outcome = "Failed" /\ failures = 1
    /\ LogHas("started") /\ ~LogHas("sheets-loaded")
    /\ seasonMappingData.isNull /\ calls = <<>> /\ run.fetchServer = "none"

\* C15: when the episode loop takes an episode whose key has no entry in the
\* episode lookup, the step writes the warning and moves to the next episode:
\* no call is made, the server and the counter are unchanged.
C15_MissingEntrySkipped ==
    [][(/\ run.pc = "epTop" /\ run' # run
        /\ run.ei <= Len(run.showMetadata[run.si].episodes)
        /\ ~operationCancelled
        /\ ~Has(EpisodeLookup(episodeData.rows, seasonMappingData.rows),
                CatalogKey(run.showMetadata[run.si].number,
                           run.showMetadata[run.si].episodes[run.ei].number))) =>
          /\ run' = [run EXCEPT
                       !.ei = @ + 1,
                       !.log = Append(@, Ev("nodata",
                                 run.showMetadata[run.si].episodes[run.ei].id, {}, 0))]
          /\ calls' = calls
          /\ plex' = plex]_vars

\* the state after a skip in a live run: the warning is the last line and the
\* loop stands at the next episode
C15_Witness ==
    /\ run.pc = "epTop" /\ run.ei > 1
    /\ run.log # <<>>
    /\ run.log[Len(run.log)] =
           Ev("nodata", run.showMetadata[run.si].episodes[run.ei - 1].id, {}, 0)
    /\ ~run.updateOptions.dryRun

\* the updateMetadata calls that were issued and have not settled
PendingCalls == {i \in DOMAIN calls : calls[i].result = "pending"}

\* C16: at most one updateMetadata call is in flight: a pending call is the
\* last one issued, the run stands at its await, and a new call is issued
\* only when every earlier call has settled.
C16_OneCallInFlight ==
    /\ [](/\ Cardinality(PendingCalls) <= 1
          /\ PendingCalls \subseteq {Len(calls)}
          /\ (PendingCalls # {} <=> run.pc \in {"awaitSeasonTitle", "awaitSeasonDesc", "awaitEp"}))
    /\ [][(Len(calls') > Len(calls) /\ calls # <<>>) =>
             /\ PendingCalls = {}
             /\ Len(calls') = Len(calls) + 1]_vars

\* a second call in flight after the first has settled
C16_Witness ==
    /\ Len(calls) >= 2
    /\ PendingCalls = {Len(calls)}
    /\ calls[1].result \in {"ok", "failed"}

\* C17: with Jellyfin as the current service a run is served as with Plex:
\* at the dispatch for the show tree the tree is requested, and an item is
\* counted as updated only in the step in which its call returns success.
C17_JellyfinAsPlex ==
    [][/\ (run.pc = "fetchShow" /\ run' # run /\ currentService = "jellyfin") =>
             run'.pc = "awaitShow"
       /\ (currentService = "jellyfin" /\ run'.totalUpdates = run.totalUpdates + 1) =>
             /\ PendingCalls = {Len(calls)}
             /\ calls'[Len(calls)].result = "ok"]_vars

\* the second half of C17 alone: counting under Jellyfin needs a successful call
C17_CountedOnlyWithCall ==
    [][(currentService = "jellyfin" /\ run'.totalUpdates = run.totalUpdates + 1) =>
             /\ PendingCalls = {Len(calls)}
             /\ calls'[Len(calls)].result = "ok"]_vars

AwaitUpdatePcs == {"awaitSeasonTitle", "awaitSeasonDesc", "awaitEp"}

\* the steps of C18: leaving the await of a call with the flag set, and the
\* counter of a run in progress never decreasing
C18_Step ==
    /\ (run.pc \in AwaitUpdatePcs /\ operationCancelled /\ run' # run) =>
          LET c == calls[Len(calls)]
              d == calls'[Len(calls)]
          IN /\ c.result = "pending"
             /\ calls' = [calls EXCEPT ![Len(calls)].result = d.result]
             /\ d.result \in {"ok", "failed"}
             /\ (d.result = "ok") =>
                   /\ plex' = [plex EXCEPT ![c.server] = ServerUpdate(@, c.id, c.updates)]
                   /\ run'.totalUpdates = run.totalUpdates + 1
                   /\ Len(run'.log) = Len(run.log) + 1
                   /\ run'.log[Len(run'.log)].item = c.id
                   /\ run'.log[Len(run'.log)].keys = c.updates.keys
             /\ (d.result = "failed") =>
                   (plex' = plex /\ run'.totalUpdates = run.totalUpdates)
    /\ (run.pc \notin {"idle", "done", "awaitShow"} /\ run'.pc # "idle") =>
          run'.totalUpdates >= run.totalUpdates

\* C18: a call that is pending when the cancellation flag is set runs to its
\* result: the step that leaves the await settles the call, and when the call
\* succeeded the server holds the update, the success line is written and the
\* counter is incremented; the summary of the run reports that counter.
C18_InFlightUpdateCompletes ==
    /\ []((run.pc = "done" /\ run.outcome = "Completed") =>
            run.log[Len(run.log)] = Ev("finished", "", {}, run.totalUpdates))
    /\ [][C18_Step]_vars

\* the flag was set while the season-title call was pending (the season loop
\* passed its check before the call, and no handler runs between the result
\* and this position): the call succeeded, is logged and is counted
C18_Witness ==
    /\ run.pc = "seasonDesc" /\ operationCancelled
    /\ calls # <<>>
    /\ calls[Len(calls)] =
          [server |-> selectedServer, id |-> run.showMetadata[run.si].id,
           updates |-> calls[Len(calls)].updates, result |-> "ok"]
    /\ run.log[Len(run.log)] =
          Ev("updated-season-title", run.showMetadata[run.si].id, {"title"}, 0)
    /\ run.totalUpdates = Cardinality(OkCalls)

\* C19: a season-description update is proposed (a call, a dry-run line or a
\* success line at the season-description site) only when the description
\* option is set and the season-map description of the season differs from
\* the summary the catalog season holds.
C19_SeasonDescriptionDiff ==
    [][(run.pc = "seasonDesc" /\ run' # run
        /\ (calls' # calls \/ Len(run'.log) > Len(run.log))) =>
          LET season == run.showMetadata[run.si]
              i == SeasonInfoIndex(seasonMappingData.rows, season.number)
          IN /\ run.updateOptions.description
             /\ i # 0
             /\ seasonMappingData.rows[i].description_en # season.summary]_vars

\* the rows the season map keeps for season n: part and title present, the
\* season number being 0 for "Specials" and the parsed part otherwise
KeptSeasonRows(rows, n) ==
    {i \in 1..Len(rows) :
        /\ rows[i].part # <<>> /\ rows[i].title_en # <<>>
        /\ (IF rows[i].title_en = Specials THEN Num(0) ELSE ParseInt(rows[i].part)) = Num(n)}

\* C20: when the season loop takes a season, a season-title update is
\* proposed (a call, a dry-run line or a result line at the season-title
\* site) exactly when the season-title option is set and a row that the
\* season map keeps for the season's number has a title that differs from
\* the catalog season's title; the description plays no part.
C20_SeasonTitleDiff ==
    [][(/\ run.pc = "seasonTop" /\ run' # run
        /\ run.si <= Len(run.showMetadata)
        /\ ~operationCancelled) =>
          LET season == run.showMetadata[run.si]
              rows == seasonMappingData.rows
          IN (calls' # calls \/ Len(run'.log) > Len(run.log))
               <=> /\ run.updateOptions.seasonTitle
                   /\ \E i \in KeptSeasonRows(rows, season.number) :
                         rows[i].title_en # season.title]_vars

\* the ids of the seasons of the tree the run fetched
SeasonIds == {run.showMetadata[i].id : i \in DOMAIN run.showMetadata}

\* C21: each option gates its own field: no call for an episode carries a
\* title unless the title option is set, none for a season carries a title
\* unless the season-title option is set, no call carries a summary unless
\* the description option is set, or an air date unless the date option is.
C21_FlagsGateFields ==
    \A i \in DOMAIN calls :
        LET c == calls[i]
            o == run.updateOptions
        IN /\ c.updates.keys # {}
           /\ ("title" \in c.updates.keys /\ c.id \notin SeasonIds) => o.title
           /\ ("title" \in c.updates.keys /\ c.id \in SeasonIds) => o.seasonTitle
           /\ ("summary" \in c.updates.keys) => o.description
           /\ ("originallyAvailableAt" \in c.updates.keys) => o.date
           /\ (c.id \in SeasonIds) => "originallyAvailableAt" \notin c.updates.keys

\* the title option is off and the date option on: the call for episode e15,
\* whose title differs from the sheet's, carries the air date alone
C21_Witness ==
    /\ ~run.updateOptions.title /\ run.updateOptions.date
    /\ \E i \in DOMAIN calls :
          /\ calls[i].id = "e15"
          /\ calls[i].updates.keys = {"originallyAvailableAt"}
          /\ calls[i].result = "ok"

\* C22: once the datasets are loaded, every episode row that the lookup keeps
\* (arc, part and title present, arc resolved to a season number) is found
\* under the key of the catalog episode with that season number and the
\* part cell read as an integer, so part "03" joins episode 3.
C22_KeyFromParsedPart ==
    (~episodeData.isNull /\ ~seasonMappingData.isNull) =>
        LET titleToSeason == TitleToSeason(seasonMappingData.rows)
            episodeLookup == EpisodeLookup(episodeData.rows, seasonMappingData.rows)
        IN \A i \in DOMAIN episodeData.rows :
              LET row == episodeData.rows[i]
                  arc == Trim(row.arc_title)
                  seasonNum == ApplySeasonNum(arc, titleToSeason)
                  part == ParseInt(row.arc_part)
              IN (/\ arc # <<>> /\ row.arc_part # <<>> /\ row.title_en # <<>>
                  /\ seasonNum.k = "num" /\ part.k = "num") =>
                    Has(episodeLookup, CatalogKey(seasonNum.n, part.n))

\* C23: once the datasets are loaded, the arc of an episode row resolves to
\* the season number the season map holds for its trimmed, lower-cased title,
\* whatever that number is (0 included), and to null only when the map has
\* no such title.
C23_ArcResolvesToMappedSeason ==
    (~episodeData.isNull /\ ~seasonMappingData.isNull) =>
        LET titleToSeason == TitleToSeason(seasonMappingData.rows)
        IN \A i \in DOMAIN episodeData.rows :
              LET arc == Trim(episodeData.rows[i].arc_title)
                  key == ToLowerCase(arc)
                  seasonNum == ApplySeasonNum(arc, titleToSeason)
              IN /\ (Has(titleToSeason, key) /\ titleToSeason[key].k = "num") =>
                       seasonNum = titleToSeason[key]
                 /\ (seasonNum = NullV) => ~Has(titleToSeason, key)

\* the keys of the update an episode-loop step proposes: those of the call it
\* issues, or those of the line it writes
ProposedKeys ==
    IF calls' # calls THEN calls'[Len(calls')].updates.keys
    ELSE run'.log[Len(run'.log)].keys

\* an episode-loop step on an episode that has a lookup entry
EpisodeStep ==
    /\ run.pc = "epTop" /\ run' # run
    /\ run.ei <= Len(run.showMetadata[run.si].episodes)
    /\ ~operationCancelled
    /\ Has(EpisodeLookup(episodeData.rows, seasonMappingData.rows),
           CatalogKey(run.showMetadata[run.si].number,
                      run.showMetadata[run.si].episodes[run.ei].number))

\* the description step of C24
C24_Step ==
    EpisodeStep =>
        LET season == run.showMetadata[run.si]
            episode == season.episodes[run.ei]
            data == EpisodeLookup(episodeData.rows, seasonMappingData.rows)[
                       CatalogKey(season.number, episode.number)]
            r == ReleaseInfoIndex(releaseData.rows, episode.number)
            extended ==
                data.description
                \o (IF r # 0 /\ releaseData.rows[r].chapters # <<>>
                    THEN ChaptersPrefix \o releaseData.rows[r].chapters ELSE <<>>)
                \o (IF r # 0 /\ releaseData.rows[r].episodes # <<>>
                    THEN EpisodesPrefix \o releaseData.rows[r].episodes ELSE <<>>)
            wanted == /\ run.updateOptions.description
                      /\ data.description # <<>>
                      /\ extended # episode.summary
        IN /\ ("summary" \in ProposedKeys) <=> wanted
           /\ (wanted /\ calls' # calls) => calls'[Len(calls')].updates.summary = extended

\* C24: for an episode with a lookup entry a description update is proposed
\* exactly when the description option is set, the lookup description is not
\* empty and that description, extended with the Chapters and Episodes lines
\* of the release row found for the episode, differs from the catalog
\* summary; the value sent is the extended text.
C24_EpisodeDescriptionDiff ==
    [][C24_Step]_vars

\* the call for e13 of world "main" carries the description with the
\* Episodes line of its release row
C24_Witness ==
    \E i \in DOMAIN calls :
        /\ calls[i].id = "e13"
        /\ "summary" \in calls[i].updates.keys
        /\ calls[i].updates.summary = D1 \o EpisodesPrefix \o <<"e">>
        /\ calls[i].result = "ok"

\* the episode of world "e2e" already holds the description: with the
\* description option set its call carries the title alone
C24_WitnessEqual ==
    /\ world.name = "e2e" /\ run.updateOptions.description
    /\ \E i \in DOMAIN calls : calls[i].id = "e13" /\ calls[i].updates.keys = {"title"}

\* the air-date step: an episode-loop step on an episode with a lookup entry
\* proposes an air date exactly when the date option is set, a release row is
\* found, its date is present, passes the sentinel test (exact: it is not the
\* sentinel; otherwise: it does not contain the sentinel text) and differs
\* from the catalog date; the value sent is that date
DateStep(exact) ==
    EpisodeStep =>
        LET episode == run.showMetadata[run.si].episodes[run.ei]
            r == ReleaseInfoIndex(releaseData.rows, episode.number)
            wanted == /\ run.updateOptions.date
                      /\ r # 0
                      /\ releaseData.rows[r].date # <<>>
                      /\ (IF exact THEN releaseData.rows[r].date # ToBeReleased
                          ELSE ~Includes(releaseData.rows[r].date, ToBeReleased))
                      /\ releaseData.rows[r].date # episode.originallyAvailableAt
        IN /\ ("originallyAvailableAt" \in ProposedKeys) <=> wanted
           /\ (wanted /\ calls' # calls) =>
                 calls'[Len(calls')].updates.originallyAvailableAt = releaseData.rows[r].date

\* C25 as stated: the date passes when it is not the sentinel "To Be Released".
C25_AirDateDiff_Original ==
    [][DateStep(TRUE)]_vars

\* C25, amended: the date passes when it does not contain the text
\* "To Be Released"; a release row whose date contains it never produces an
\* air-date update.
C25_AirDateDiff ==
    [][DateStep(FALSE)]_vars

\* world "specials", date and title options set: the call for e01, whose
\* release date holds the sentinel text, carries the title alone; e02, whose
\* date the server already has, needs no update
C25_Witness ==
    /\ world.name = "specials" /\ run.updateOptions.date
    /\ \E i \in DOMAIN calls : calls[i].id = "e01" /\ calls[i].updates.keys = {"title"}
    /\ \E i \in DOMAIN run.log : run.log[i] = Ev("noupdates", "e02", {}, 0)

\* world "main": the call for e15 carries the date of its release row
C25_WitnessDate ==
    \E i \in DOMAIN calls :
        /\ calls[i].id = "e15"
        /\ "originallyAvailableAt" \in calls[i].updates.keys
        /\ calls[i].updates.originallyAvailableAt = Y2020

\* the episode rows that the lookup drops because their arc resolves to no
\* season: arc, part and title are present and seasonNum is null
UnresolvedRows ==
    {i \in DOMAIN episodeData.rows :
        LET row == episodeData.rows[i]
            arc == Trim(row.arc_title)
        IN /\ arc # <<>> /\ row.arc_part # <<>> /\ row.title_en # <<>>
           /\ ApplySeasonNum(arc, TitleToSeason(seasonMappingData.rows)) = NullV}

\* C26: once a run has built the episode lookup (it is past the fetch of the
\* show, where the lookup is built), its log holds, for every episode row
\* dropped for an unresolvable arc, a warning line that names the row's arc.
C26_DroppedRowsLogged ==
    LogHas("show-loaded") =>
        \A i \in UnresolvedRows :
            \E j \in DOMAIN run.log :
                /\ run.log[j].ev = "unresolved-arc"
                /\ run.log[j].item = episodeData.rows[i].arc_title

\* the episode loop of the last season was left by its cancellation check:
\* the episode index still points at an episode of that season
LastEpisodeLoopCut ==
    /\ run.showMetadata # <<>>
    /\ run.ei <= Len(run.showMetadata[Len(run.showMetadata)].episodes)

\* C27: a run that found the flag set at a season or episode loop boundary
\* does not end Completed: a run that is Completed has no cancellation line
\* and did not leave the episode loop of its last season by the flag.
C27_CancelledNotCompleted ==
    (run.pc = "done" /\ run.outcome = "Completed") =>
        (~LogHas("cancelled") /\ ~LastEpisodeLoopCut)

\* the last part of C27 alone: the flag set during the last season
C27_LastSeasonCancelled ==
    (run.pc = "done" /\ run.outcome = "Completed" /\ ~LogHas("cancelled")) =>
        ~LastEpisodeLoopCut

\* the items of the fetched tree in traversal order: each season, then its
\* episodes, as the adapter returned them
RECURSIVE Traversal(_)
Traversal(tree) ==
    IF tree = <<>> THEN <<>>
    ELSE <<Head(tree).id>>
         \o [j \in 1..Len(Head(tree).episodes) |-> Head(tree).episodes[j].id]
         \o Traversal(Tail(tree))

\* the place of an item in the traversal (ids are unique in a tree)
Pos(id) ==
    LET t == Traversal(run.showMetadata)
    IN CHOOSE k \in 1..Len(t) : t[k] = id

\* C28: the calls of a run are a subsequence of the traversal of the fetched
\* tree: every call is for an item of the tree, and of two calls the later
\* one is for an item further on in the traversal.
C28_CallsFollowTraversal ==
    /\ \A i \in DOMAIN calls :
          \E k \in DOMAIN Traversal(run.showMetadata) :
              Traversal(run.showMetadata)[k] = calls[i].id
    /\ \A i \in DOMAIN calls : \A j \in DOMAIN calls :
          i < j => Pos(calls[i].id) < Pos(calls[j].id)

\* the order alone: of two calls the later one is never for an earlier item
C28_CallsNeverGoBack ==
    /\ \A i \in DOMAIN calls :
          \E k \in DOMAIN Traversal(run.showMetadata) :
              Traversal(run.showMetadata)[k] = calls[i].id
    /\ \A i \in DOMAIN calls : \A j \in DOMAIN calls :
          i < j => Pos(calls[i].id) <= Pos(calls[j].id)

ProcessingPcs ==
    {"seasonTop", "awaitSeasonTitle", "seasonDesc", "awaitSeasonDesc", "epTop", "awaitEp",
     "sleepEp", "sleepSeason"}

\* the phase of a position: Idle, LoadingLookups, FetchingCatalog,
\* Processing, terminal
Phase(pc) ==
    CASE pc = "idle" -> 0
      [] pc = "awaitSheets" -> 1
      [] pc \in {"fetchShow", "awaitShow"} -> 2
      [] pc \in ProcessingPcs -> 3
      [] OTHER -> 4

ShowLoadedLines == {i \in DOMAIN run.log : run.log[i].ev = "show-loaded"}

\* the states of C29: the tree is requested only with the lookups loaded, a
\* run that has not fetched yet holds no tree, processing and calls come
\* only after the one successful fetch of the run
C29_Inv ==
    /\ Phase(run.pc) \in {2, 3} => (~seasonMappingData.isNull /\ ~episodeData.isNull)
    /\ Phase(run.pc) \in {1, 2} => (run.showMetadata = <<>> /\ ShowLoadedLines = {})
    /\ Phase(run.pc) = 3 => Cardinality(ShowLoadedLines) = 1
    /\ Cardinality(ShowLoadedLines) <= 1
    /\ calls # <<>> => Cardinality(ShowLoadedLines) = 1

\* the steps of C29: the phases are passed in order, a new run (one that has
\* a show to work on) starts from a terminal or idle position without a tree,
\* and the tree a run processes is the one the server holds when the fetch
\* settles
C29_Step ==
    /\ (Phase(run.pc) \in {1, 2, 3}) =>
          /\ Phase(run'.pc) >= Phase(run.pc)
          /\ Phase(run'.pc) <= Phase(run.pc) + 1 \/ run'.pc = "done"
    /\ (Phase(run.pc) \in {0, 4} /\ run'.pc # run.pc /\ run'.outcome # "NotStarted") =>
          /\ run'.pc \in {"awaitSheets", "fetchShow"}
          /\ (run'.pc = "fetchShow") <=> (~seasonMappingData.isNull /\ ~episodeData.isNull)
          /\ run'.showMetadata = <<>>
    /\ (Phase(run.pc) \in {0, 4} /\ run' # run) => calls' = <<>>
    /\ (run.pc = "awaitShow" /\ Phase(run'.pc) = 3) =>
          /\ Len(run'.showMetadata) = Len(plex[run.fetchServer])
          /\ \A i \in DOMAIN run'.showMetadata :
                \/ run'.showMetadata[i] = plex[run.fetchServer][i]
                \/ run'.showMetadata[i] = [plex[run.fetchServer][i] EXCEPT !.episodes = <<>>]
    /\ (Phase(run.pc) = 3) => run'.showMetadata = run.showMetadata

\* C29: each run passes Idle, LoadingLookups, FetchingCatalog, Processing and
\* a terminal state in that order; it fetches the tree once, after the
\* lookups are loaded, from the server as it is then, and makes no call
\* before that fetch has succeeded.
C29_PhasesInOrder ==
    /\ []C29_Inv
    /\ [][C29_Step]_vars

\* a second run, on another server than the first, has fetched that
\* server's (empty) tree and completed
C29_Witness ==
    /\ runs = 2 /\ run.pc = "done" /\ run.outcome = "Completed"
    /\ run.previous.dry /\ run.previous.server = "A" /\ run.previous.events # <<>>
    /\ run.fetchServer = "B" /\ run.showMetadata = <<>>
    /\ Cardinality(ShowLoadedLines) = 1

DatasetsUnset == seasonMappingData.isNull /\ episodeData.isNull /\ releaseData.isNull

DatasetsSet ==
    /\ seasonMappingData = Data(world.seasonMapping)
    /\ episodeData = Data(world.episodeData)
    /\ releaseData = Data(world.releaseData)

\* the steps of C30: a load stores the three datasets together or none of
\* them, a load with a failed request leaves them unset and fails the run,
\* and an invocation that finds them unset loads again
C30_Step ==
    /\ (run.pc = "awaitSheets" /\ run' # run) =>
          \/ (failures' = failures /\ DatasetsSet' /\ run'.pc = "fetchShow")
          \/ (failures' > failures /\ DatasetsUnset' /\ run'.outcome = "Failed")
    /\ (run.pc # "awaitSheets") =>
          UNCHANGED <<seasonMappingData, episodeData, releaseData>>
    /\ (run.pc \in {"idle", "done"} /\ run'.pc \notin {"idle", "done"} /\ DatasetsUnset) =>
          run'.pc = "awaitSheets"

\* C30: the season, episode and release datasets are all unset or all set
\* from one load; a load in which a request failed leaves all three unset,
\* and the next invocation loads again.
C30_DatasetsAllOrNothing ==
    /\ [](DatasetsUnset \/ DatasetsSet)
    /\ [][C30_Step]_vars

\* after a load in which one request failed: the run has failed and the three
\* datasets are unset
C30_Witness ==
    /\ run.pc = "done" /\ run.outcome = "Failed" /\ failures = 1
    /\ ~LogHas("sheets-loaded") /\ DatasetsUnset

\* a second invocation has loaded the datasets
C30_WitnessReload ==
    /\ runs = 2 /\ LogHas("sheets-loaded") /\ DatasetsSet

(***************************************************************************)
(* Termination of applyOnePaceEdits                                        *)
(***************************************************************************)
\* the steps of an activation other than the top of the episode loop: its
\* synchronous stretches, the settling of its requests, the firing of its
\* timers
RunStep ==
    \/ \E replies \in [1..3 -> Replies] : SheetsResolve(replies)
    \/ FetchShow
    \/ \E seasonsReply \in Replies, episodeReplies \in [1..Len(world.catalog) -> Replies] :
          ShowResolve(seasonsReply, episodeReplies)
    \/ SeasonTop
    \/ \E reply \in Replies : SeasonTitleResolve(reply)
    \/ SeasonDesc
    \/ \E reply \in Replies : SeasonDescResolve(reply)
    \/ \E reply \in Replies : EpResolve(reply)
    \/ SleepEpDone
    \/ SleepSeasonDone

\* What the event loop and the transport guarantee to an activation: a
\* synchronous stretch that can run does run, a timer of Utils.sleep fires,
\* and every request that was sent is answered (resolved or rejected).  At
\* each position of the activation exactly one of its steps can be taken.
\* The top of the episode loop can be taken exactly when the activation is
\* there (the branches of EpTop cover every case), so its weak fairness is
\* written with that position in place of ENABLED <<EpTop>>_vars.
ApplyFairness ==
    /\ WF_vars(RunStep)
    /\ (<>[](run.pc = "epTop")) => ([]<><<EpTop>>_vars)

SpecLive == Init /\ [][Next]_vars /\ ApplyFairness

\* the terminal outcomes of a run
TerminalOutcomes == {"Completed", "Cancelled", "Failed"}

\* C31: when every request is eventually answered, every invocation of
\* applyOnePaceEdits that started a run reaches a terminal outcome, whatever
\* the replies to its updates and whenever stopOperation is called.
C31_RunTerminates ==
    InProgress ~> (run.pc = "done" /\ run.outcome \in TerminalOutcomes)

\* a live run that saw a failed update and a stop request, and ended
C31_Witness ==
    /\ run.pc = "done"
    /\ run.outcome \in TerminalOutcomes
    /\ ~run.updateOptions.dryRun
    /\ operationCancelled
    /\ \E i \in DOMAIN calls : calls[i].result = "failed"
    /\ \E i \in DOMAIN calls : calls[i].result = "ok"

(***************************************************************************)
(* renameMediaFiles against the lookups of applyOnePaceEdits               *)
(***************************************************************************)
\* arc titles as a file name can carry them: the sentinels, the titles of
\* the season maps, case variants of them, a title no map has
ArcTitles == {Specials, FanLetter, SpecialsLower, Eb, EbUpper, Sk, Xx}

\* the lines renameMediaFiles writes about a file whose name matched
MatchedLines == {"unknown-arc", "no-title", "already", "would-rename"}

\* C32: with the same season and episode datasets, renameMediaFiles and
\* applyOnePaceEdits resolve every arc title to the same season number
\* (compared as they are rendered in a key), and a file whose name matched
\* gets a canonical title exactly when the episode lookup of
\* applyOnePaceEdits has an entry for the key of its arc and episode number.
C32_SameLookup ==
    ~seasonMappingData.isNull =>
        LET applyMap == TitleToSeason(seasonMappingData.rows)
            renameMap == RenameTitleToSeason(seasonMappingData.rows)
            applyLookup == EpisodeLookup(episodeData.rows, seasonMappingData.rows)
        IN /\ \A arc \in ArcTitles :
                 ValToStr(FileSeasonNumber(arc, renameMap))
                     = ValToStr(ApplySeasonNum(arc, applyMap))
           /\ \A i \in DOMAIN rename.log :
                 rename.log[i].ev \in MatchedLines =>
                     LET match == Exec(rename.log[i].file)
                         seasonNum == ApplySeasonNum(Trim(match.arc), applyMap)
                         key == RowKey(seasonNum, ValToStr(ParseInt(match.episode)))
                     IN (rename.log[i].ev \in {"already", "would-rename"})
                            <=> (seasonNum # NullV /\ Has(applyLookup, key))

\* the lines renameMediaFiles writes about a video file
FileLines == MatchedLines \cup {"unparsable"}

\* the video files whose iteration of the file loop has reported (a run
\* that failed did so before the loop)
ReportedFiles ==
    LET n == CASE rename.pc = "file" -> rename.fi - 1
               [] rename.pc = "sleepFile" -> rename.fi
               [] rename.outcome = "Completed" -> Len(rename.files)
               [] OTHER -> 0
    IN SelectSeq(SubSeq(rename.files, 1, n), IsVideo)

C33_Inv ==
    LET lines == SelectSeq(rename.log, LAMBDA e : e.ev \in FileLines)
        renamed == {i \in DOMAIN lines : lines[i].ev = "would-rename"}
    IN /\ Len(lines) = Len(ReportedFiles)
       /\ rename.processedCount = Len(lines)
       /\ \A i \in DOMAIN lines :
             /\ lines[i].file = ReportedFiles[i]
             /\ (lines[i].ev = "unparsable") <=> ~Exec(lines[i].file).ok
             /\ (lines[i].ev = "already") => (lines[i].text = lines[i].file)
             /\ (lines[i].ev = "would-rename") => (lines[i].text # lines[i].file)
       /\ rename.renamedCount = Cardinality(renamed)
       /\ rename.renamedCount <= rename.processedCount
       /\ (rename.outcome = "Completed") =>
             /\ rename.log[Len(rename.log)].processed = rename.processedCount
             /\ rename.log[Len(rename.log)].renamed = rename.renamedCount

C33_Step ==
    (rename' # rename) =>
        /\ processedFiles' = processedFiles
        /\ (RenameInProgress => rename'.files = rename.files)

\* C33: every video file renameMediaFiles has processed has exactly one
\* line, in the order of the selection: unparsable, unknown arc, no title,
\* already correct (the proposed name is the file's name) or would rename
\* (it is not); renamedCount counts the would-rename lines alone and never
\* exceeds processedCount; the summary carries both counts; the run leaves
\* the selected files as they are.
C33_OneOutcomePerFile == []C33_Inv /\ [][C33_Step]_vars

\* a run over a file that is already named right and one that is not
C33_Witness ==
    /\ rename.outcome = "Completed"
    /\ rename.processedCount = 2
    /\ rename.renamedCount = 1
    /\ \E i \in DOMAIN rename.log : rename.log[i].ev = "already"
    /\ \E i \in DOMAIN rename.log : rename.log[i].ev = "would-rename"

\* a run that passed over a file that is no video and skipped one with a
\* warning: one line, nothing renamed
C33_WitnessSkipped ==
    /\ rename.outcome = "Completed"
    /\ Len(rename.files) = 2
    /\ rename.processedCount = 1
    /\ rename.renamedCount = 0
    /\ \E i \in DOMAIN rename.log : rename.log[i].ev \in {"unparsable", "unknown-arc", "no-title"}

(***************************************************************************)
(* Utils.parseCSV                                                          *)
(***************************************************************************)
\* String.prototype.split on a separator of one character
RECURSIVE Split(_, _)
Split(s, sep) ==
    LET hits == {i \in DOMAIN s : s[i] = sep}
    IN IF hits = {} THEN <<s>>
       ELSE <<SubSeq(s, 1, SetMin(hits) - 1)>>
              \o Split(SubSeq(s, SetMin(hits) + 1, Len(s)), sep)

\* v.trim().replace(/"/g, "")
Cell(v) == SelectSeq(Trim(v), LAMBDA c : c # "\"")

\* line.split(",").map(...)
Cells(line) ==
    LET parts == Split(line, ",")
    IN [i \in DOMAIN parts |-> Cell(parts[i])]

\* a variant that drops only the lines that are empty
NonEmptyLines(text) == SelectSeq(Split(text, "\n"), LAMBDA line : line # <<>>)

\* csvText.split("\n").filter((line) => line.trim())
NonBlankLines(text) == SelectSeq(Split(text, "\n"), LAMBDA line : Trim(line) # <<>>)

\* the object of one line: headers.forEach assigns obj[header] in order, so
\* the last header of a name decides; values[index] || ""
RowObject(headers, values) ==
    [h \in {headers[i] : i \in DOMAIN headers} |->
        LET i == SetMax({j \in DOMAIN headers : headers[j] = h})
        IN IF i <= Len(values) THEN values[i] ELSE <<>>]

ParseCSV(text) ==
    LET lines == NonBlankLines(text)
    IN IF Len(lines) < 2 THEN <<>>
       ELSE [k \in 1..(Len(lines) - 1) |->
                RowObject(Cells(lines[1]), Cells(lines[k + 1]))]

\* the characters of the texts: letters, the delimiter, the line break,
\* white space, the quote
CsvChars == {"a", "b", ",", "\n", " ", "\""}

CsvTexts == UNION {[1..n -> CsvChars] : n \in 0..MaxText}

\* a call of Utils.parseCSV returns
ParseCsvReturn ==
    /\ csvResult.isNull
    /\ csvResult' = Data(ParseCSV(csvText))
    /\ UNCHANGED <<csvText, renameVars, world, dom, plex, stateVars, run, calls, runs, failures,
                   switches>>

\* a call of Utils.parseCSV with any text
InitCsv == Constructed /\ world = WorldE2E /\ dom = AllOff /\ csvText \in CsvTexts
             /\ csvResult = NullData

NextCsv == ParseCsvReturn

SpecCsv == InitCsv /\ [][NextCsv]_vars

\* the lines of a text, by the positions of its line breaks
TextLines(text) ==
    LET breaks == {i \in DOMAIN text : text[i] = "\n"}
        starts == {1} \cup {i + 1 : i \in breaks}
        EndOf(a) == SetMin({i \in breaks : i >= a} \cup {Len(text) + 1}) - 1
        Nth(k) == CHOOSE a \in starts : Cardinality({b \in starts : b < a}) = k - 1
    IN [k \in 1..Cardinality(starts) |-> SubSeq(text, Nth(k), EndOf(Nth(k)))]

IsBlank(line) == \A i \in DOMAIN line : line[i] = " "

\* the lines that hold more than white space, in the order of the text
ContentLines(text) == SelectSeq(TextLines(text), LAMBDA line : ~IsBlank(line))

\* C34: Utils.parseCSV returns the empty sequence for a text with fewer than
\* two lines that hold more than white space; otherwise one row for each
\* such line after the first, in the order of the text; every row has the
\* cells of the first line as its keys and no other key, the value of a key
\* is the cell of the line at the key's place, and the empty string when
\* the line has no cell there.
C34_ParseCSV ==
    ~csvResult.isNull =>
        LET content == ContentLines(csvText)
            rows == csvResult.rows
        IN /\ (Len(content) < 2) => (rows = <<>>)
           /\ (Len(content) >= 2) =>
                 /\ Len(rows) = Len(content) - 1
                 /\ \A k \in DOMAIN rows :
                       LET headers == Cells(content[1])
                           line == content[k + 1]
                           n == 1 + Cardinality({i \in DOMAIN line : line[i] = ","})
                       IN /\ DOMAIN rows[k] = {headers[i] : i \in DOMAIN headers}
                          /\ \A i \in DOMAIN headers :
                                (\A j \in DOMAIN headers : headers[j] = headers[i] => j <= i) =>
                                    rows[k][headers[i]]
                                        = IF i <= n THEN Cells(line)[i] ELSE <<>>

\* a row whose line is one cell short: its last key holds the empty string
C34_Witness ==
    /\ ~csvResult.isNull
    /\ Len(csvResult.rows) = 1
    /\ DOMAIN csvResult.rows[1] = {<<"a">>, <<"b">>}
    /\ csvResult.rows[1][<<"a">>] = <<"b">>
    /\ csvResult.rows[1][<<"b">>] = <<>>
    /\ Len(Cells(ContentLines(csvText)[2])) = 1

\* a line of white space between the header and a line: one row
C34_WitnessBlank ==
    /\ ~csvResult.isNull
    /\ Len(csvResult.rows) = 1
    /\ Len(TextLines(csvText)) = 3
    /\ TextLines(csvText)[2] = <<" ">>

\* a text with one line that holds more than white space: no row
C34_WitnessEmpty ==
    /\ ~csvResult.isNull
    /\ csvResult.rows = <<>>
    /\ Len(ContentLines(csvText)) = 1
    /\ Len(TextLines(csvText)) = 3

(***************************************************************************)
(* The handlers that share the state with a run                            *)
(***************************************************************************)
\* C35: at every point of a live run the counter totalUpdates is the number
\* of updateMetadata calls of the run that have returned success; no item
\* is counted without a call.
C35_CounterCountsCalls ==
    (run.pc # "idle" /\ ~run.updateOptions.dryRun) =>
        run.totalUpdates = Cardinality(OkCalls)

\* applyOnePaceEdits invoked while an activation is suspended in an await
\* (window.applyOnePaceEdits, or the apply button after updateUIState has
\* enabled it again): a show is selected, so the guard passes and the flag
\* is reset.  Only this first stretch of the new activation is followed.
ReinvokeApply ==
    /\ InProgress
    /\ Quiescent
    /\ operationCancelled' = FlagAtStart
    /\ UNCHANGED <<renameVars, csvVars, world, dom, plex, selectedServer, selectedShow,
                   currentService, seasonMappingData, episodeData, releaseData, run, calls,
                   runs, failures, switches>>

NextReentry == Next \/ ReinvokeApply

SpecReentry == Init /\ [][NextReentry]_vars

\* C36: a stop request issued while a run is in progress is never lost: once
\* the flag is set during a run, it stays set until that run has reached its
\* terminal outcome, also when applyOnePaceEdits is invoked again meanwhile.
C36_StopNeverLost == [][(InProgress /\ operationCancelled) => operationCancelled']_vars

\* C37: every updateMetadata call of a run is sent to the server from which
\* that run's tree was fetched, whatever server is selected meanwhile.
C37_CallsToFetchServer == \A i \in DOMAIN calls : calls[i].server = run.fetchServer

\* C38: each run starts with the flag cleared, also when the flag was set
\* before the invocation, and as long as no stop request has set the flag
\* since, the run has not been cancelled.
C38_Inv == (run.pc # "idle" /\ ~operationCancelled) => ~LogHas("cancelled")

C38_Step == (~InProgress /\ InProgress') => ~operationCancelled'

C38_StartsCleared == []C38_Inv /\ [][C38_Step]_vars

\* a run invoked with the flag set has gone through its season loop, has
\* updated an item and has ended without a cancellation
C38_Witness ==
    /\ run.previous.stopped
    /\ run.pc = "done" /\ run.outcome = "Completed"
    /\ ~operationCancelled /\ ~LogHas("cancelled")
    /\ OkCalls # {}

====
